---- MODULE Spec2Model ----
(***************************************************************************)
(* Google-Maps-Scraper: the scroll controllers (utils/scroll.js,           *)
(* utils/reviewScroll.js), the listing extractor (utils/listingExtractor), *)
(* the review extractor (utils/reviewExtractor.js), the details pass       *)
(* (extractBusinessDetails) and the collection driver (main.js).           *)
(*                                                                         *)
(* Each component is a state machine over its own variables; one           *)
(* specification per component (SpecScroll, SpecReviews, SpecFlow, Spec).  *)
(* What the page shows (counts, heights, markers, containers) is the       *)
(* environment: it is drawn afresh at every read of the document.          *)
(***************************************************************************)
EXTENDS Integers, Sequences, FiniteSets, TLC

VARIABLES
    \* ---- scroll controllers (scrollSidebar / scrollReviewsPanel)
    ctl,            \* which controller runs: "sidebar" | "reviews"
    target,         \* maxResults / maxReviews (Infinity = unlimited)
    scrollCount,    \* let scrollCount
    previous,       \* previousHeight (sidebar) / previousCount (reviews)
    noChangeCount,  \* let noChangeCount
    spc,            \* "loop" while in the while loop, "returned" after return
    ret,            \* the returned object, NoRet before the return
    iters,          \* history: loop iterations begun
    lastProbe,      \* history: the probe count of the last iteration
    sameRun,        \* history: consecutive iterations with that same probe count (capped)
    lastEnd,        \* history: end-of-results marker seen in the last iteration
    lastHeight,     \* history: the scroll height read in the last scrolling iteration
    staleRun,       \* history: consecutive iterations whose height was unchanged or 0 (capped)
    lastArticles,   \* history: the div[role="article"] count of the last sidebar probe
    stopReason,     \* history: why the controller returned
    \* ---- collection driver (main.js) with the listing extractor and the details pass
    inputMax,       \* input.maxResults as given
    scrapeDetails,  \* input.scrapeDetails
    searchPc,       \* the search-page request: where its handler stands
    retries,        \* times the search-page request was retried
    businesses,     \* const businesses = await extractBusinessListings(...)
    idx,            \* position of the for loop over businesses
    scrapedCount,   \* let scrapedCount
    scrapedUrls,    \* const scrapedUrls = new Set()
    queue,          \* detail-page requests added and not yet started
    active,         \* detail-page requests whose handler is running
    dataset,        \* records pushed with Dataset.pushData, in order
    handled,        \* requests the crawler has finished
    accepted,       \* history: the records accepted by the driver, in order
    docInfo,        \* history: what the document held when the listings were extracted
    \* --- extractReviewsFromPage ---
    panel,          \* the [data-review-id] containers of the page, in document order
    maxReviews,     \* the cap handed to the extraction
    rpc,            \* "ready" before the extraction, "done" after it
    reviews,        \* the Review records returned
    \* --- extractReviewsFromListing ---
    fpc,            \* the stage about to run, "returned" after the return
    logWarns,       \* the logger has a warning() method (console, the default, has none)
    wantShare,      \* the extractShareLinks argument
    found,          \* the number of reviews extractReviewsFromPage gave
    shareIdx,       \* the loop index of extractShareLinksForReviews
    flowRet,        \* the length of the array returned
    trace,          \* history: the stages started, in order, and the catch block's "cleanup"
    closeAttempts,  \* history: how many times closeSidebar was called
    flowExit,       \* history: the return statement taken, "none" before the return
    failedStages,   \* history: the stages that failed
    botMarkers,     \* the page showed bot-detection markers at the bot check
    shareLog,       \* history: the turns of the share-link loop, one per review tried
    \* --- one call of a function of the listing pass or of the details pass ---
    fn,             \* the function called
    input,          \* its arguments
    applied,        \* the call has returned
    output,         \* what it returned
    \* --- extractEnrichmentData ---
    epc,            \* position: "start", "nav", "eval", "contact", "done"
    websiteUrl,     \* the website to visit
    followContactPage,
    basePage,       \* what the website shows
    contactPage,    \* what its contact page shows
    enrichment,     \* the enrichment record
    enrichExit,     \* "running", "returned" or "thrown"
    enrichLog,      \* history: the steps that failed, and "visited" for a contact visit
    \* --- Actor.main, up to crawler.run ---
    mpc,            \* position: "input", "validate", "proxy", "crawler", "run", "running",
                    \* "fatal"
    actorInput,     \* what Actor.getInput() gives
    startLog,       \* history: "proxy", "crawler", "navigate", in the order they happened
    fatal,          \* the message of the error thrown out of Actor.main, "none" without one
    \* --- autoScrollInBrowser ---
    apc,            \* position: "uncalled", "start", "loop", "returned"
    variant,        \* the file of the function: "scroll.js" or "reviewScroll.js"
    targetReviews,  \* the argument
    lastCount,      \* lastHeight in scroll.js
    autoNoChange,   \* noChangeCount
    scrollAttempts, \* the counter of reviewScroll.js; scroll.js has none, it stays 0
    autoRet,        \* the count returned, Null before the return
    autoStop,       \* history: why the scrolling stopped
    \* --- scrollReviewsPanel around autoScrollInBrowser ---
    ppc,            \* position: "entry", "auto", "returned"
    panelRet        \* the record returned

scrollVars == <<ctl, target, scrollCount, previous, noChangeCount, spc, ret,
                iters, lastProbe, sameRun, lastEnd, lastHeight, staleRun, lastArticles,
                stopReason>>

driverVars == <<inputMax, scrapeDetails, searchPc, retries, businesses, idx, scrapedCount,
                scrapedUrls, queue, active, dataset, handled, accepted, docInfo>>

reviewVars == <<panel, maxReviews, rpc, reviews>>

flowVars == <<fpc, logWarns, wantShare, found, shareIdx, flowRet, trace, closeAttempts,
              flowExit, failedStages,
      botMarkers, shareLog>>

callVars == <<fn, input, applied, output>>

enrichVars ==
    <<epc, websiteUrl, followContactPage, basePage, contactPage, enrichment, enrichExit,
      enrichLog>>

mainVars == <<mpc, actorInput, startLog, fatal>>

autoVars ==
    <<apc, variant, targetReviews, lastCount, autoNoChange, scrollAttempts, autoRet, autoStop,
      ppc, panelRet>>

vars == <<scrollVars, driverVars, reviewVars, flowVars, callVars, enrichVars, mainVars,
          autoVars>>

\* what the actions of one component leave alone
besidesScroll == <<driverVars, reviewVars, flowVars, callVars, enrichVars, mainVars,
      autoVars>>
besidesDriver == <<scrollVars, reviewVars, flowVars, callVars, enrichVars, mainVars,
      autoVars>>
besidesReviews == <<scrollVars, driverVars, flowVars, callVars, enrichVars, mainVars,
      autoVars>>
besidesFlow == <<scrollVars, driverVars, reviewVars, callVars, enrichVars, mainVars,
      autoVars>>
besidesCall == <<scrollVars, driverVars, reviewVars, flowVars, enrichVars, mainVars,
      autoVars>>
besidesMain ==
    <<scrollVars, driverVars, reviewVars, flowVars, callVars, enrichVars, autoVars>>
besidesAuto ==
    <<scrollVars, driverVars, reviewVars, flowVars, callVars, enrichVars, mainVars>>
besidesEnrich == <<scrollVars, driverVars, reviewVars, flowVars, callVars, mainVars,
      autoVars>>

\* ------------------------------------------------------------------------
\* Bounds of the model
\* ------------------------------------------------------------------------
MaxTarget == 2      \* finite targets 1..MaxTarget
MaxCount == 1       \* a selector matches 0..MaxCount elements
MaxHeight == 2      \* scrollHeight values 0..MaxHeight
MaxDoc == 3         \* elements (article containers, loose anchors) in the results document
MaxInput == 2       \* finite input.maxResults values 1..MaxInput
MaxRetries == 1     \* retries the crawler grants a failed request
MaxPanel == 3       \* review containers on the page
MaxReviewTarget == 2 \* finite review caps 1..MaxReviewTarget
MaxFound == 2       \* reviews the extraction stage of the flow gives

\* ------------------------------------------------------------------------
\* Numbers with Infinity (main.js: maxResults = isUnlimited ? Infinity : ...)
\* ------------------------------------------------------------------------
Infinity == -1      \* stands for the JavaScript value Infinity; never used as an integer

Min(a, b) == IF a <= b THEN a ELSE b
Max(a, b) == IF a >= b THEN a ELSE b

\* Math.min(cap, x), Math.max(floor, x), Math.ceil(x / d) + k, for x possibly Infinity
MathMin(cap, x) == IF x = Infinity THEN cap ELSE Min(cap, x)
MathMax(floor, x) == IF x = Infinity THEN Infinity ELSE Max(floor, x)
CeilDivPlus(x, d, k) == IF x = Infinity THEN Infinity ELSE ((x + d - 1) \div d) + k
\* count >= x, for x possibly Infinity
ReachedTarget(count, x) == x # Infinity /\ count >= x
\* count < x, for x possibly Infinity
Below(count, x) == x = Infinity \/ count < x

Targets == (1..MaxTarget) \cup {Infinity}

\* ------------------------------------------------------------------------
\* scrollSidebar (utils/scroll.js) and scrollReviewsPanel (utils/reviewScroll.js)
\* ------------------------------------------------------------------------
SidebarCap == 300
SidebarDivisor == 5
ReviewsCap == 200
ReviewsDivisor == 3
MinScrolls == 5
ScrollBuffer == 10
SidebarStall == 3
ReviewsStall == 5

\* const maxScrolls = Math.min(300, Math.max(5, Math.ceil(maxResults / 5) + 10));
SidebarMaxScrolls(t) ==
    MathMin(SidebarCap, MathMax(MinScrolls, CeilDivPlus(t, SidebarDivisor, ScrollBuffer)))

\* const maxScrolls = Math.min(200, Math.max(5, Math.ceil(maxReviews / 3) + 10));
ReviewsMaxScrolls(t) ==
    MathMin(ReviewsCap, MathMax(MinScrolls, CeilDivPlus(t, ReviewsDivisor, ScrollBuffer)))

NoRet == [scrollCount |-> -1, reachedEnd |-> FALSE, loaded |-> -1]

RunCap == ReviewsStall + 1

Counts == 0..MaxCount
Heights == 0..MaxHeight

\* the history variables after an iteration that probed `probe`, read the scroll height
\* `height` (when `read`: the height is compared only if no end marker shows) and
\* saw (or did not read) the end marker
History(probe, read, height, endSeen) ==
    /\ iters' = iters + 1
    /\ lastProbe' = probe
    /\ sameRun' = IF iters > 0 /\ probe = lastProbe THEN Min(sameRun + 1, RunCap) ELSE 1
    /\ lastEnd' = endSeen
    /\ lastHeight' = IF read THEN height ELSE lastHeight
    /\ staleRun' = IF ~read THEN staleRun
                   ELSE IF height = lastHeight \/ height = 0
                        THEN Min(staleRun + 1, SidebarStall) ELSE 0

Return(count, reachedEnd, loaded, why) ==
    /\ spc' = "returned"
    /\ ret' = [scrollCount |-> count, reachedEnd |-> reachedEnd, loaded |-> loaded]
    /\ stopReason' = why

\* mutant: the loop test off by one
SidebarLoopGuardInclusive == scrollCount <= SidebarMaxScrolls(target)

\* the while condition of scrollSidebar
SidebarLoopGuard == scrollCount < SidebarMaxScrolls(target)

\* the probe of scrollSidebar: Math.max(articles.length, links.length)
SidebarProbe(articles, links) == Max(articles, links)

\* if (scrollResult.height === previousHeight || scrollResult.height === 0)
SidebarNoChange(height) == height = previous \/ height = 0

\* if (noChangeCount >= 3)
SidebarStalled(n) == n >= SidebarStall

\* One iteration of the while loop of scrollSidebar.
SidebarIteration ==
    /\ ctl = "sidebar" /\ spc = "loop"
    /\ SidebarLoopGuard
    /\ \E articles \in Counts, links \in Counts :
         LET probe == SidebarProbe(articles, links) IN
      /\ lastArticles' = articles
      /\ IF ReachedTarget(probe, target)
         THEN /\ Return(scrollCount, FALSE, probe, "target")
              /\ History(probe, FALSE, 0, FALSE)
              /\ UNCHANGED <<scrollCount, previous, noChangeCount>>
         ELSE \E endMarker \in BOOLEAN :
              IF endMarker
              THEN \E finalCount \in Counts :
                   /\ Return(scrollCount, TRUE, finalCount, "end")
                   /\ History(probe, FALSE, 0, TRUE)
                   /\ UNCHANGED <<scrollCount, previous, noChangeCount>>
              ELSE \E height \in Heights :
                   IF SidebarNoChange(height)
                   THEN IF SidebarStalled(noChangeCount + 1)
                        THEN \E finalCount \in Counts :
                             /\ noChangeCount' = noChangeCount + 1
                             /\ Return(scrollCount, TRUE, finalCount, "stall")
                             /\ History(probe, TRUE, height, FALSE)
                             /\ UNCHANGED <<scrollCount, previous>>
                        ELSE /\ noChangeCount' = noChangeCount + 1
                             /\ previous' = height
                             /\ scrollCount' = scrollCount + 1
                             /\ History(probe, TRUE, height, FALSE)
                             /\ UNCHANGED <<spc, ret, stopReason>>
                   ELSE /\ noChangeCount' = 0
                        /\ previous' = height
                        /\ scrollCount' = scrollCount + 1
                        /\ History(probe, TRUE, height, FALSE)
                        /\ UNCHANGED <<spc, ret, stopReason>>
    /\ UNCHANGED <<ctl, target, besidesScroll>>

\* The loop of scrollSidebar ran out: the final count and the return after it.
SidebarExhausted ==
    /\ ctl = "sidebar" /\ spc = "loop"
    /\ ~SidebarLoopGuard
    /\ \E finalCount \in Counts : Return(scrollCount, FALSE, finalCount, "ceiling")
    /\ UNCHANGED <<besidesScroll, ctl, target, scrollCount, previous, noChangeCount,
                   iters, lastProbe, sameRun, lastEnd, lastHeight, staleRun, lastArticles>>

\* the while condition of scrollReviewsPanel
ReviewsLoopGuard == scrollCount < ReviewsMaxScrolls(target)

\* the probe of scrollReviewsPanel: the first selector of the cascade that matches
ReviewsProbe(byDataId, byClass, photoButtons, shareButtons) ==
    IF byDataId > 0 THEN byDataId
    ELSE IF byClass > 0 THEN byClass
    ELSE IF photoButtons > 0 THEN photoButtons
    ELSE IF shareButtons > 0 THEN shareButtons
    ELSE 0

\* the final count of scrollReviewsPanel
ReviewsFinalCount(byDataId, photoButtons) ==
    IF byDataId > 0 THEN byDataId ELSE photoButtons

\* if (currentReviewCount === previousCount)
ReviewsNoChange(count) == count = previous

\* mutant: the stall threshold compared strictly
ReviewsStalledStrict(n) == n > ReviewsStall

\* if (noChangeCount >= 5)
ReviewsStalled(n) == n >= ReviewsStall

\* One iteration of the while loop of scrollReviewsPanel.
ReviewsIteration ==
    /\ ctl = "reviews" /\ spc = "loop"
    /\ ReviewsLoopGuard
    /\ \E byDataId \in Counts, byClass \in Counts, photoButtons \in Counts,
          shareButtons \in Counts :
         LET probe == ReviewsProbe(byDataId, byClass, photoButtons, shareButtons) IN
         IF ReachedTarget(probe, target)
         THEN /\ Return(scrollCount, FALSE, probe, "target")
              /\ History(probe, FALSE, 0, FALSE)
              /\ UNCHANGED <<scrollCount, previous, noChangeCount>>
         ELSE \E endMarker \in BOOLEAN :
              IF endMarker
              THEN \E finalById \in Counts, finalPhoto \in Counts :
                   /\ Return(scrollCount, TRUE, ReviewsFinalCount(finalById, finalPhoto), "end")
                   /\ History(probe, FALSE, 0, TRUE)
                   /\ UNCHANGED <<scrollCount, previous, noChangeCount>>
              ELSE IF ReviewsNoChange(probe)
              THEN IF ReviewsStalled(noChangeCount + 1)
                   THEN /\ noChangeCount' = noChangeCount + 1
                        /\ Return(scrollCount, TRUE, probe, "stall")
                        /\ History(probe, FALSE, 0, FALSE)
                        /\ UNCHANGED <<scrollCount, previous>>
                   ELSE /\ noChangeCount' = noChangeCount + 1
                        /\ previous' = probe
                        /\ scrollCount' = scrollCount + 1
                        /\ History(probe, FALSE, 0, FALSE)
                        /\ UNCHANGED <<spc, ret, stopReason>>
              ELSE /\ noChangeCount' = 0
                   /\ previous' = probe
                   /\ scrollCount' = scrollCount + 1
                   /\ History(probe, FALSE, 0, FALSE)
                   /\ UNCHANGED <<spc, ret, stopReason>>
    /\ UNCHANGED <<ctl, target, lastArticles, besidesScroll>>

\* The loop of scrollReviewsPanel ran out: the final count and the return after it.
ReviewsExhausted ==
    /\ ctl = "reviews" /\ spc = "loop"
    /\ ~ReviewsLoopGuard
    /\ \E finalById \in Counts, finalPhoto \in Counts :
         Return(scrollCount, FALSE, ReviewsFinalCount(finalById, finalPhoto), "ceiling")
    /\ UNCHANGED <<besidesScroll, ctl, target, scrollCount, previous, noChangeCount,
                   iters, lastProbe, sameRun, lastEnd, lastHeight, staleRun, lastArticles>>

\* let scrollCount = 0; let previousHeight = 0 / previousCount = 0; let noChangeCount = 0;
ScrollInit ==
    /\ ctl \in {"sidebar", "reviews"}
    /\ target \in Targets
    /\ scrollCount = 0
    /\ previous = 0
    /\ noChangeCount = 0
    /\ spc = "loop"
    /\ ret = NoRet
    /\ iters = 0
    /\ lastProbe = 0
    /\ sameRun = 0
    /\ lastEnd = FALSE
    /\ lastHeight = 0
    /\ staleRun = 0
    /\ lastArticles = 0
    /\ stopReason = "none"

ScrollNext ==
    \/ SidebarIteration
    \/ SidebarExhausted
    \/ ReviewsIteration
    \/ ReviewsExhausted

\* the scroll controllers at rest, for the specifications of the other components
ScrollIdle ==
    /\ ctl = "sidebar" /\ target = Infinity /\ scrollCount = 0 /\ previous = 0
    /\ noChangeCount = 0 /\ spc = "idle" /\ ret = NoRet /\ iters = 0 /\ lastProbe = 0
    /\ sameRun = 0 /\ lastEnd = FALSE /\ lastHeight = 0 /\ staleRun = 0
    /\ lastArticles = 0 /\ stopReason = "none"

\* ------------------------------------------------------------------------
\* Text the extractors parse
\* ------------------------------------------------------------------------
Null == -2          \* the JavaScript value null (a field that was not resolved)
NaN == -3           \* the JavaScript value NaN (parseFloat / parseInt of no digits)

DigitChars == <<"0", "1", "2", "3", "4", "5", "6", "7", "8", "9">>
IsDigit(c) == \E i \in 1..10 : DigitChars[i] = c
DigitVal(c) == (CHOOSE i \in 1..10 : DigitChars[i] = c) - 1

\* the number of leading digit characters of text t from position i on
RECURSIVE DigitRun(_, _)
DigitRun(t, i) == IF i <= Len(t) /\ IsDigit(t[i]) THEN 1 + DigitRun(t, i + 1) ELSE 0

\* the value of the digit characters t[i..j]
RECURSIVE DigitsValue(_, _, _)
DigitsValue(t, i, j) == IF j < i THEN 0 ELSE 10 * DigitsValue(t, i, j - 1) + DigitVal(t[j])

\* parseInt(t): the leading digits, NaN when there is none
ParseInt(t) ==
    LET n == DigitRun(t, 1) IN IF n = 0 THEN NaN ELSE DigitsValue(t, 1, n)

\* parseFloat(t) in tenths: leading digits, then an optional "." and fraction digits
\* (the texts of the model carry at most one); NaN when there is no digit at all
ParseFloat(t) ==
    LET n == DigitRun(t, 1)
        dot == n + 1 <= Len(t) /\ t[n + 1] = "."
        f == IF dot THEN DigitRun(t, n + 2) ELSE 0
    IN  IF n = 0 /\ f = 0 THEN NaN
        ELSE 10 * DigitsValue(t, 1, n) + (IF f > 0 THEN DigitVal(t[n + 2]) ELSE 0)

\* text.replace(/,/g, '')
RemoveCommas(t) == SelectSeq(t, LAMBDA c : c # ",")

\* ------------------------------------------------------------------------
\* Text fields of a record: a string, or null
\* ------------------------------------------------------------------------
NullText == "(null)"    \* null (also: undefined) where the value is otherwise a string

\* if (!value): null, undefined and the empty string are falsy
Falsy(v) == v = NullText \/ v = ""

\* ------------------------------------------------------------------------
\* Website resolution of one article (utils/listingExtractor.js, Methods 1 to 4)
\* ------------------------------------------------------------------------
\* an href: its scheme, its host and its path segments
Href(scheme, host, path) == [scheme |-> scheme, host |-> host, path |-> path]

\* website: null
NullHref == Href("(null)", "", <<>>)

JoesSite == Href("https://", "joespizza.com", <<>>)
OrderSite == Href("https://", "order.example", <<"track", "joes">>)
CdnSite == Href("//", "joespizza.com", <<>>)
AdClick == Href("https://", "www.google.com", <<"aclk", "joes">>)
MapsDir == Href("https://", "www.google.com", <<"maps", "dir">>)
Facebook == Href("https://", "www.facebook.com", <<"joes">>)
TikTok == Href("https://", "www.tiktok.com", <<"joes">>)
Script == Href("javascript:", "", <<>>)

\* href.includes('google.com')
IncludesGoogle(h) == h.host \in {"www.google.com", "google.com", "maps.google.com"}

\* href.includes('google.com/aclk')
IncludesAclk(h) == IncludesGoogle(h) /\ h.path # <<>> /\ h.path[1] = "aclk"

\* href.includes('/maps/')
IncludesMaps(h) == \E i \in 1..(Len(h.path) - 1) : h.path[i] = "maps"

\* function isValidWebsiteUrl(href)
IsValidWebsiteUrl(h) ==
    IF IncludesAclk(h) THEN TRUE
    ELSE IF IncludesGoogle(h) \/ IncludesMaps(h) THEN FALSE
    ELSE h.scheme \in {"http://", "https://", "//"}

\* href.startsWith('//') ? 'https:' + href : href
WithScheme(h) == IF h.scheme = "//" THEN [h EXCEPT !.scheme = "https://"] ELSE h

\* the social hosts Method 2 skips
ClusterSocialHosts ==
    {"www.facebook.com", "www.instagram.com", "www.twitter.com", "www.youtube.com",
     "www.linkedin.com"}

\* the social hosts Method 4 skips
ExternalSocialHosts == ClusterSocialHosts \cup {"www.tiktok.com"}

\* !href.includes('google.com/aclk') && (href.includes('facebook.com') || ...)
IsSocial(h, hosts) == ~IncludesAclk(h) /\ h.host \in hosts

\* href.includes('google.com/aclk') || href.includes('redirect') || 'track' || 'click'
IsTracking(h) ==
    IncludesAclk(h) \/ \E i \in 1..Len(h.path) : h.path[i] \in {"redirect", "track", "click"}

\* an anchor with href of the article. mark: "button" when the selector of Method 1
\* (data-value="Website", aria-label*="Website", data-tooltip*="website" i) matches it,
\* "hint" when only the attribute test of Method 3 does (a title, a lower-case
\* aria-label), "none" otherwise; clustered: a div holding 2 to 6 anchors holds it
WebLink(href, mark, clustered) == [href |-> href, mark |-> mark, clustered |-> clustered]

\* the position of the first link satisfying P, 0 when there is none
FirstIndex(links, P(_)) ==
    IF \E i \in 1..Len(links) : P(links[i])
    THEN CHOOSE i \in 1..Len(links) : P(links[i]) /\ \A j \in 1..(i - 1) : ~P(links[j])
    ELSE 0

\* Method 1: the first anchor the selector matches, taken when its href is valid
WebsiteButton(links) ==
    LET k == FirstIndex(links, LAMBDA l : l.mark = "button") IN
    IF k # 0 /\ IsValidWebsiteUrl(links[k].href) THEN WithScheme(links[k].href)
    ELSE NullHref

\* Method 2: the divs holding 2 to 6 anchors in document order, their anchors in
\* document order: the first valid href that is not social
WebsiteInCluster(links) ==
    LET k == FirstIndex(links, LAMBDA l : l.clustered /\ IsValidWebsiteUrl(l.href)
                                          /\ ~IsSocial(l.href, ClusterSocialHosts)) IN
    IF k # 0 THEN WithScheme(links[k].href) ELSE NullHref

\* Method 3: the first valid href whose anchor mentions "website" in an attribute
WebsiteByAttribute(links) ==
    LET k == FirstIndex(links, LAMBDA l : IsValidWebsiteUrl(l.href)
                                          /\ l.mark \in {"button", "hint"}) IN
    IF k # 0 THEN WithScheme(links[k].href) ELSE NullHref

\* Method 4: externalLinks, the valid hrefs that are not social, in document order
ExternalLinks(links) ==
    LET kept == SelectSeq(links, LAMBDA l : IsValidWebsiteUrl(l.href)
                                            /\ ~IsSocial(l.href, ExternalSocialHosts))
    IN  [i \in 1..Len(kept) |-> WithScheme(kept[i].href)]

\* Method 4: the only external link; of several, the first without a tracking marker,
\* or the first when all carry one
WebsiteByElimination(links) ==
    LET ext == ExternalLinks(links)
        direct == SelectSeq(ext, LAMBDA h : ~IsTracking(h))
    IN  IF Len(ext) = 0 THEN NullHref
        ELSE IF Len(ext) = 1 THEN ext[1]
        ELSE IF Len(direct) > 0 THEN direct[1] ELSE ext[1]

\* the cascade: each method runs only if (!website)
ResolveWebsite(links) ==
    IF WebsiteButton(links) # NullHref THEN WebsiteButton(links)
    ELSE IF WebsiteInCluster(links) # NullHref THEN WebsiteInCluster(links)
    ELSE IF WebsiteByAttribute(links) # NullHref THEN WebsiteByAttribute(links)
    ELSE WebsiteByElimination(links)

\* ------------------------------------------------------------------------
\* Field classifiers and the span loop of one article (utils/listingExtractor.js)
\* ------------------------------------------------------------------------
\* The text fragments of the model, with what each classifier's patterns make of them:
\*   "Italian restaurant"      category (/restaurant/i)
\*   "Coffee shop, Amsterdam"  category (/shop/i) and address (/,\s*[A-Z][a-z]+/)
\*   "123 Main Street"         address (/^\d+\s+[A-Za-z]/); no category (/^\d/ skips it)
\*   "020 123 4567"            phone (10 digits); no category (/^\d/), no address
\*   "Closed"                  hours status; no category (/^closed/i skips it)
\*   "Open 24 hours"           address (/\d+[A-Za-z]?\s+[A-Za-z]/) and hours status
\*   "Sponsored"               nothing (/^sponsored$/i skips it)
\*   "4.5", "(212)"            a bare number, a bare count
\*   "Joe's Pizza"             nothing (the name of the model's articles)
Fragments ==
    {"Italian restaurant", "Coffee shop, Amsterdam", "123 Main Street", "020 123 4567",
     "Closed", "Open 24 hours", "Sponsored", "4.5", "(212)", "Joe's Pizza"}

\* function isCategory(text)
IsCategory(text) == text \in {"Italian restaurant", "Coffee shop, Amsterdam"}

\* function isAddress(text)
IsAddress(text) == text \in {"Coffee shop, Amsterdam", "123 Main Street", "Open 24 hours"}

\* function isPhoneNumber(text)
IsPhoneNumber(text) == text \in {"020 123 4567"}

\* function isHoursStatus(text)
IsHoursStatus(text) == text \in {"Closed", "Open 24 hours"}

\* /^\d+\.?\d*$/.test(text)
IsBareNumber(text) == text \in {"4.5"}

\* /^\(\d+[,\d]*\)$/.test(text)
IsBareCount(text) == text \in {"(212)"}

\* text.toLowerCase() !== 'sponsored'
IsSponsoredWord(text) == text \in {"Sponsored"}

\* the condition of each if of the span loop, after its (!field) test
Passes(field, text) ==
    CASE field = "category" -> IsCategory(text) /\ ~IsSponsoredWord(text)
      [] field = "address" -> IsAddress(text)
      [] field = "phone" -> IsPhoneNumber(text)
      [] field = "hoursStatus" -> IsHoursStatus(text)

\* the order of the four ifs of the span loop
Precedence == <<"category", "address", "phone", "hoursStatus">>

\* mutant: a claim not ending the turn of its fragment
ClaimFallsThrough == FALSE

\* each if that claims the fragment ends with continue
ClaimEndsTurn == TRUE

\* if (!text) continue; if (text === name) continue; the bare number and count tests
SkipsFragment(text, name) ==
    text = "" \/ text = name \/ IsBareNumber(text) \/ IsBareCount(text)

\* the fields before the span loop; tested and claims record which classifier was run
\* on which fragment and which fragment each field took
NoFields ==
    [category |-> NullText, address |-> NullText, phone |-> NullText,
     hoursStatus |-> NullText, tested |-> {}, claims |-> {}]

\* one turn of the span loop for fragment i, from the k-th if on
RECURSIVE TestFragment(_, _, _, _)
TestFragment(st, i, text, k) ==
    IF k > Len(Precedence) THEN st
    ELSE LET field == Precedence[k] IN
         IF ~Falsy(st[field]) THEN TestFragment(st, i, text, k + 1)
         ELSE LET ran == [st EXCEPT !.tested = @ \cup {<<i, field>>}] IN
              IF ~Passes(field, text) THEN TestFragment(ran, i, text, k + 1)
              ELSE LET took == [ran EXCEPT ![field] = text,
                                           !.claims = @ \cup {<<i, field>>}]
                   IN  IF ClaimEndsTurn THEN took ELSE TestFragment(took, i, text, k + 1)

\* for (const span of spans), from fragment i on
RECURSIVE SpanLoop(_, _, _, _)
SpanLoop(spans, i, name, st) ==
    IF i > Len(spans) THEN st
    ELSE IF SkipsFragment(spans[i], name) THEN SpanLoop(spans, i + 1, name, st)
    ELSE SpanLoop(spans, i + 1, name, TestFragment(st, i, spans[i], 1))

ClassifySpans(spans, name) == SpanLoop(spans, 1, name, NoFields)

\* a button or anchor with aria-label: phone is what /phone[:\s]*([+\d\s\-\.\(\)]+)/i
\* captures in the label, trimmed (null: the label does not mention a phone); hours is
\* the label when it includes Open, Closed, Opens or Closes (null otherwise)
Button(phone, hours) == [phone |-> phone, hours |-> hours]

\* for (const btn of buttons), from button i on
RECURSIVE ButtonLoop(_, _, _)
ButtonLoop(buttons, i, st) ==
    IF i > Len(buttons) THEN st
    ELSE LET b == buttons[i]
             phoned == IF Falsy(st.phone) /\ b.phone # NullText
                       THEN [st EXCEPT !.phone = b.phone] ELSE st
             timed == IF Falsy(phoned.hoursStatus) /\ b.hours # NullText
                      THEN [phoned EXCEPT !.hoursStatus = b.hours] ELSE phoned
         IN  ButtonLoop(buttons, i + 1, timed)

\* the name: article aria-label || link aria-label || link text, cut at the first
\* separator and trimmed, 'Unknown Business' when empty. A label is its parts between
\* the separators, each trimmed; <<>> is an absent or empty label
FirstLabel(labels) ==
    LET k == FirstIndex(labels, LAMBDA l : l # <<>> /\ l # <<"">>) IN
    IF k = 0 THEN <<>> ELSE labels[k]

ListingName(labels) ==
    LET l == FirstLabel(labels) IN
    IF l = <<>> \/ l[1] = "" THEN "Unknown Business" ELSE l[1]

\* what an article shows besides its place link, its rating and its review count:
\* labels (of the article, of the place link, the place link's text), whether its text
\* holds "sponsored", its anchors with href, its spans, its labelled buttons, and what
\* the address pattern and the phone patterns match in its whole text (null: no match)
Card(labels, sponsored, webLinks, spans, buttons, textAddress, textPhone) ==
    [labels |-> labels, sponsored |-> sponsored, webLinks |-> webLinks,
     spans |-> spans, buttons |-> buttons, textAddress |-> textAddress,
     textPhone |-> textPhone]

JoesLabels == <<<<>>, <<"Joe's Pizza", "Italian restaurant">>, <<"Joe's Pizza">>>>

PlainCard == Card(JoesLabels, FALSE, <<>>, <<>>, <<>>, NullText, NullText)

\* category, address, phone and hoursStatus of an article: the span loop, the button
\* loop, then the whole-text patterns for an address or a phone still missing
ListingFields(card, name) ==
    LET st == ButtonLoop(card.buttons, 1, ClassifySpans(card.spans, name)) IN
    [category |-> st.category,
     address |-> IF Falsy(st.address) /\ card.textAddress # NullText
                 THEN card.textAddress ELSE st.address,
     phone |-> IF Falsy(st.phone) /\ card.textPhone # NullText
               THEN card.textPhone ELSE st.phone,
     hoursStatus |-> st.hoursStatus]

\* ------------------------------------------------------------------------
\* The results document: article containers and anchors, in document order
\* ------------------------------------------------------------------------
Origin == "https://www.google.com"
PlaceA == <<Origin, "maps", "place", "A">>
PlaceB == <<Origin, "maps", "place", "B">>
PlaceC == <<Origin, "maps", "place", "C">>
SearchHref == <<Origin, "maps", "search", "q">>
NoHref == <<>>      \* an anchor without href: its href property is the empty string

\* href contains "/maps/place/" (an href is its origin and its path segments)
HasPlacePath(h) ==
    \E i \in 2..Len(h) : h[i] = "maps" /\ i + 2 <= Len(h) /\ h[i + 1] = "place"

\* an element of the document: an article container with its anchors and its text, or
\* an anchor outside every article. ratingText is what /(\d+\.?\d*)\s*(?:stars?|\()/
\* captures in the text, reviewText what /\(([0-9,]+)\)/ captures (<<>>: no match);
\* broken: reading the article's fields throws after its url was taken; card: the
\* rest of what the element shows
Element(isArticle, links, ratingText, reviewText, broken) ==
    [article |-> isArticle, links |-> links, ratingText |-> ratingText,
     reviewText |-> reviewText, broken |-> broken, card |-> PlainCard]

\* the same element showing another card
WithCard(e, card) == [e EXCEPT !.card = card]

Elements ==
    { Element(TRUE, <<PlaceA>>, <<"4", ".", "5">>, <<"7">>, FALSE),
      Element(TRUE, <<SearchHref, PlaceB>>, <<"6">>, <<"1", ",", "2">>, FALSE),
      Element(TRUE, <<PlaceA>>, <<>>, <<",">>, FALSE),
      Element(TRUE, <<NoHref, SearchHref>>, <<"5">>, <<>>, FALSE),
      Element(TRUE, <<PlaceB>>, <<>>, <<>>, TRUE),
      Element(FALSE, <<PlaceA>>, <<>>, <<>>, FALSE),
      Element(FALSE, <<PlaceB>>, <<>>, <<>>, FALSE),
      Element(FALSE, <<NoHref>>, <<>>, <<>>, FALSE) }

RECURSIVE SeqsUpTo(_, _)
SeqsUpTo(S, n) ==
    IF n = 0 THEN {<<>>}
    ELSE LET shorter == SeqsUpTo(S, n - 1)
         IN  shorter \cup {Append(q, x) : q \in {r \in shorter : Len(r) = n - 1}, x \in S}

Docs == SeqsUpTo(Elements, MaxDoc)

\* ------------------------------------------------------------------------
\* extractBusinessListings (utils/listingExtractor.js)
\* ------------------------------------------------------------------------
\* mutant: the place-link selector matching any anchor
AnyLinkIndex(links) == IF Len(links) > 0 THEN 1 ELSE 0

\* querySelector('a[href*="/maps/place/"]'): the position of the first anchor the
\* selector matches, 0 when it matches none
PlaceLinkIndex(links) ==
    IF \E i \in 1..Len(links) : HasPlacePath(links[i])
    THEN CHOOSE i \in 1..Len(links) :
            HasPlacePath(links[i]) /\ \A j \in 1..(i - 1) : ~HasPlacePath(links[j])
    ELSE 0

\* document.querySelectorAll('div[role="article"]')
Articles(doc) == SelectSeq(doc, LAMBDA e : e.article)

\* document.querySelectorAll('a[href*="/maps/place/"]'): every matching anchor of the
\* document, inside the articles or not, in document order
RECURSIVE PlaceAnchors(_)
PlaceAnchors(doc) ==
    IF doc = <<>> THEN <<>>
    ELSE SelectSeq(Head(doc).links, HasPlacePath) \o PlaceAnchors(Tail(doc))

\* the aria-label and the text of each of these anchors, in the same order (the place
\* anchors of an element carry the link labels of its card)
RECURSIVE PlaceAnchorLabels(_)
PlaceAnchorLabels(doc) ==
    IF doc = <<>> THEN <<>>
    ELSE LET own == SelectSeq(Head(doc).links, HasPlacePath)
         IN  [i \in 1..Len(own) |-> Tail(Head(doc).card.labels)]
                 \o PlaceAnchorLabels(Tail(doc))

\* const ratingValue = parseFloat(ratingMatch[1]);
\* if (ratingValue >= 1 && ratingValue <= 5) rating = ratingValue;      (tenths)
ListingRating(ratingText) ==
    IF ratingText = <<>> THEN Null
    ELSE LET v == ParseFloat(ratingText)
         IN  IF v # NaN /\ v >= 10 /\ v <= 50 THEN v ELSE Null

\* reviewCount = parseInt(reviewMatch[1].replace(/,/g, ''));
ListingReviewCount(reviewText) ==
    IF reviewText = <<>> THEN Null ELSE ParseInt(RemoveCommas(reviewText))

\* the record pushed for an article container (scrapedAt, the time of the push, is
\* left out; priceLevel and plusCode are not set by the listing pass)
ArticleBusiness(e, url) ==
    LET name == ListingName(e.card.labels)
        fields == ListingFields(e.card, name)
    IN  [name |-> name, url |-> url,
         rating |-> ListingRating(e.ratingText),
         reviewCount |-> ListingReviewCount(e.reviewText),
         category |-> fields.category, address |-> fields.address,
         phone |-> fields.phone, website |-> ResolveWebsite(e.card.webLinks),
         hoursStatus |-> fields.hoursStatus, isSponsored |-> e.card.sponsored,
         priceLevel |-> NullText, plusCode |-> NullText]

\* the record pushed for an anchor by the fallback; labels: the anchor's aria-label
\* and its text
AnchorBusiness(url, labels) ==
    [name |-> ListingName(labels), url |-> url, rating |-> Null,
     reviewCount |-> Null, category |-> NullText, address |-> NullText,
     phone |-> NullText, website |-> NullHref, hoursStatus |-> NullText,
     isSponsored |-> FALSE, priceLevel |-> NullText, plusCode |-> NullText]

\* if (seenUrls.has(url)) continue;
SeenUrl(seen, url) == url \in seen

\* mutant: the loops never stopping at the cap
ResultsNeverFull(results, max) == FALSE

\* if (results.length >= max) break;
ResultsFull(results, max) == ReachedTarget(Len(results), max)

\* mutant: the catch of an article ending the pass
CatchEndsPass == FALSE

\* } catch (error) { console.error(...); } is the last statement of the loop body
CatchContinues == TRUE

\* Method 1: for (const article of articles), from article i on; what an article throws
\* is caught and the loop goes on with the next one
RECURSIVE ArticlePass(_, _, _, _, _)
ArticlePass(arts, i, results, seen, max) ==
    IF i > Len(arts) \/ ResultsFull(results, max)
    THEN [results |-> results, seen |-> seen]
    ELSE LET k == PlaceLinkIndex(arts[i].links) IN
         IF k = 0 THEN ArticlePass(arts, i + 1, results, seen, max)
         ELSE LET url == arts[i].links[k] IN
              IF SeenUrl(seen, url) THEN ArticlePass(arts, i + 1, results, seen, max)
              ELSE IF arts[i].broken
              THEN IF CatchContinues
                   THEN ArticlePass(arts, i + 1, results, seen \cup {url}, max)
                   ELSE [results |-> results, seen |-> seen \cup {url}]
              ELSE ArticlePass(arts, i + 1, Append(results, ArticleBusiness(arts[i], url)),
                               seen \cup {url}, max)

\* Method 2: for (const link of links), from anchor i on
RECURSIVE AnchorPass(_, _, _, _, _, _)
AnchorPass(anchors, labels, i, results, seen, max) ==
    IF i > Len(anchors) \/ ResultsFull(results, max)
    THEN results
    ELSE IF SeenUrl(seen, anchors[i])
    THEN AnchorPass(anchors, labels, i + 1, results, seen, max)
    ELSE AnchorPass(anchors, labels, i + 1,
                    Append(results, AnchorBusiness(anchors[i], labels[i])),
                    seen \cup {anchors[i]}, max)

\* mutant: no anchor fallback
FallbackNever(primary) == FALSE

\* if (results.length === 0): the anchor fallback runs
FallbackRuns(primary) == Len(primary.results) = 0

ExtractBusinessListings(doc, max) ==
    LET primary == ArticlePass(Articles(doc), 1, <<>>, {}, max) IN
    IF FallbackRuns(primary)
    THEN AnchorPass(PlaceAnchors(doc), PlaceAnchorLabels(doc), 1, primary.results,
                    primary.seen, max)
    ELSE primary.results

\* ------------------------------------------------------------------------
\* extractBusinessDetails (the details pass)
\* ------------------------------------------------------------------------
\* the text fields of data, as page.evaluate returns them: name (the trimmed h1 text),
\* address, phone and plusCode (the button labels without their prefix, trimmed),
\* website (the href of the website link), hoursStatus, category, priceLevel; null
\* stands for null and for a field left undefined
DetailTexts(name, address, phone, website, hoursStatus, category, priceLevel, plusCode) ==
    [name |-> name, address |-> address, phone |-> phone, website |-> website,
     hoursStatus |-> hoursStatus, category |-> category, priceLevel |-> priceLevel,
     plusCode |-> plusCode]

NoTexts ==
    DetailTexts(NullText, NullText, NullText, NullHref, NullText, NullText, NullText,
                NullText)

\* what the detail page shows: whether the h1 heading appears in time, the text
\* /([\d.]+)\s*star/ captures in the rating label and the text /^(\d+[\d,]*)\s*review/
\* captures (<<>>: no element or no match)
DetailPage(ok, ratingLabel, reviewLabel) ==
    [ok |-> ok, ratingLabel |-> ratingLabel, reviewLabel |-> reviewLabel,
     texts |-> NoTexts]

\* the same page showing other texts
WithTexts(page, texts) == [page EXCEPT !.texts = texts]

DetailPages ==
    { DetailPage(FALSE, <<>>, <<>>),
      DetailPage(TRUE, <<>>, <<>>),
      DetailPage(TRUE, <<"4", ".", "8">>, <<"1", "2">>),
      DetailPage(TRUE, <<"0">>, <<>>),
      DetailPage(TRUE, <<".">>, <<"3">>) }

\* data.rating = parseFloat(ratingMatch[1]);   (left undefined without a match)
DetailsRating(page) ==
    IF page.ratingLabel = <<>> THEN Null ELSE ParseFloat(page.ratingLabel)

\* data.reviewCount = parseInt(reviewMatch[1].replace(/,/g, ''));
DetailsReviewCount(page) ==
    IF page.reviewLabel = <<>> THEN Null ELSE ParseInt(RemoveCommas(page.reviewLabel))

\* mutant: the merge taking every value of the page, found or not
FoundAlways(v) == TRUE

\* if (details.address): the page holds a text for the field
Found(v) == ~Falsy(v)

\* if (details.name) business.name = details.name;
\* if (details.rating !== undefined && details.rating !== null) business.rating = ...
\* if (details.reviewCount !== undefined && ...) business.reviewCount = ...
\* if (details.address) business.address = details.address;     (and so on)
\* a failure (the h1 wait timing out) is caught and leaves the business as it was
ExtractBusinessDetails(page, business) ==
    IF ~page.ok THEN business
    ELSE LET d == page.texts IN
         [business EXCEPT
            !.name = IF Found(d.name) THEN d.name ELSE @,
            !.rating = IF DetailsRating(page) # Null THEN DetailsRating(page) ELSE @,
            !.reviewCount = IF DetailsReviewCount(page) # Null
                            THEN DetailsReviewCount(page) ELSE @,
            !.address = IF Found(d.address) THEN d.address ELSE @,
            !.phone = IF Found(d.phone) THEN d.phone ELSE @,
            !.website = IF d.website # NullHref THEN d.website ELSE @,
            !.hoursStatus = IF Found(d.hoursStatus) THEN d.hoursStatus ELSE @,
            !.category = IF Found(d.category) THEN d.category ELSE @,
            !.priceLevel = IF Found(d.priceLevel) THEN d.priceLevel ELSE @,
            !.plusCode = IF Found(d.plusCode) THEN d.plusCode ELSE @]

\* ------------------------------------------------------------------------
\* The collection driver (main.js): Actor.main and the crawler's handlers
\* ------------------------------------------------------------------------
MaxConcurrency == 1

\* input.maxResults: a number, or null / undefined / '' (blank)
InputValues ==
    [kind : {"number"}, value : 0..MaxInput]
        \cup [kind : {"null", "undefined", "blank"}, value : {0}]

\* const isUnlimited = inputMaxResults === 0 || ... === null || ... === undefined || ... === ''
IsUnlimited(in) == in.kind # "number" \/ in.value = 0

\* const maxResults = isUnlimited ? Infinity : inputMaxResults;
MaxResults == IF IsUnlimited(inputMax) THEN Infinity ELSE inputMax.value

\* maxRequestsPerCrawl: scrapeDetails ? maxResults * 2 : 1
MaxRequestsPerCrawl ==
    IF scrapeDetails THEN (IF MaxResults = Infinity THEN Infinity ELSE MaxResults * 2) ELSE 1

SearchRunning == searchPc \in {"wait", "scroll", "extract", "accept"}

Running == (IF SearchRunning THEN 1 ELSE 0) + Cardinality(active)

\* mutant: the crawler starting a request whatever is running
CrawlerAlwaysFree == TRUE

\* maxConcurrency: 1 -- the crawler starts a request only below that many running handlers
CrawlerHasCapacity == Running < MaxConcurrency

\* the crawler starts no request once maxRequestsPerCrawl requests are finished
CrawlerBelowLimit == Below(handled, MaxRequestsPerCrawl)

DriverInit ==
    /\ inputMax \in InputValues
    /\ scrapeDetails \in BOOLEAN
    /\ searchPc = "queued"
    /\ retries = 0
    /\ businesses = <<>>
    /\ idx = 0
    /\ scrapedCount = 0
    /\ scrapedUrls = {}
    /\ queue = <<>>
    /\ active = {}
    /\ dataset = <<>>
    /\ handled = 0
    /\ accepted = <<>>
    /\ docInfo = [extracted |-> FALSE, duplicates |-> FALSE, fallback |-> FALSE,
                  distinct |-> 0]

\* crawler.run([startUrl]): the crawler opens the search page and calls requestHandler
StartSearch ==
    /\ searchPc = "queued"
    /\ CrawlerHasCapacity /\ CrawlerBelowLimit
    /\ searchPc' = "wait"
    /\ UNCHANGED <<besidesDriver, inputMax, scrapeDetails, retries, businesses, idx,
                   scrapedCount, scrapedUrls, queue, active, dataset, handled, accepted,
                   docInfo>>

\* a page operation of the search handler throws: the handler rethrows and the crawler
\* retries the request or, out of retries, gives it to failedRequestHandler
SearchThrows ==
    IF retries < MaxRetries
    THEN searchPc' = "queued" /\ retries' = retries + 1 /\ handled' = handled
    ELSE searchPc' = "failed" /\ retries' = retries /\ handled' = handled + 1

\* await page.waitForSelector('[role="feed"], ...') and the cookie banner
SearchWait ==
    /\ searchPc = "wait"
    /\ \E ok \in BOOLEAN :
         IF ok THEN searchPc' = "scroll" /\ UNCHANGED <<retries, handled>>
         ELSE SearchThrows
    /\ UNCHANGED <<besidesDriver, inputMax, scrapeDetails, businesses, idx, scrapedCount,
                   scrapedUrls, queue, active, dataset, accepted, docInfo>>

\* const scrollResult = await scrollSidebar(page, maxResults);
SearchScroll ==
    /\ searchPc = "scroll"
    /\ \E ok \in BOOLEAN :
         IF ok THEN searchPc' = "extract" /\ UNCHANGED <<retries, handled>>
         ELSE SearchThrows
    /\ UNCHANGED <<besidesDriver, inputMax, scrapeDetails, businesses, idx, scrapedCount,
                   scrapedUrls, queue, active, dataset, accepted, docInfo>>

\* history: what the extracted document held
DocInfo(doc) ==
    LET primary == ArticlePass(Articles(doc), 1, <<>>, {}, Infinity)
        all == ExtractBusinessListings(doc, Infinity)
        arts == Articles(doc)
        shown == IF FallbackRuns(primary) THEN PlaceAnchors(doc)
                 ELSE [i \in 1..Len(arts) |->
                         IF PlaceLinkIndex(arts[i].links) = 0 THEN NoHref
                         ELSE arts[i].links[PlaceLinkIndex(arts[i].links)]]
    IN  [extracted |-> TRUE,
         duplicates |-> \E i \in 1..Len(shown), k \in 1..Len(shown) :
                           i # k /\ shown[i] # NoHref /\ shown[i] = shown[k],
         fallback |-> FallbackRuns(primary) /\ Len(all) > 0,
         distinct |-> Len(all)]

\* const businesses = await extractBusinessListings(page, maxResults);
\* if (businesses.length === 0) return;
SearchExtract ==
    /\ searchPc = "extract"
    /\ \E ok \in BOOLEAN :
         IF ok
         THEN \E doc \in Docs :
                LET listed == ExtractBusinessListings(doc, MaxResults) IN
                /\ businesses' = listed
                /\ docInfo' = DocInfo(doc)
                /\ idx' = 1
                /\ IF Len(listed) = 0
                   THEN searchPc' = "done" /\ handled' = handled + 1
                   ELSE searchPc' = "accept" /\ handled' = handled
                /\ retries' = retries
         ELSE SearchThrows /\ UNCHANGED <<businesses, idx, docInfo>>
    /\ UNCHANGED <<besidesDriver, inputMax, scrapeDetails, scrapedCount, scrapedUrls, queue,
                   active, dataset, accepted>>

\* if (scrapedCount >= maxResults) break;
AcceptLimitReached == ReachedTarget(scrapedCount, MaxResults)

\* if (!scrapedUrls.has(business.url))
IsNewBusiness(business) == business.url \notin scrapedUrls

\* One turn of the loop "for (const business of businesses)" and, when the loop ends,
\* the return of the handler.
SearchAccept ==
    /\ searchPc = "accept"
    /\ IF idx > Len(businesses) \/ AcceptLimitReached
       THEN /\ searchPc' = "done"
            /\ handled' = handled + 1
            /\ UNCHANGED <<idx, scrapedCount, scrapedUrls, queue, dataset, accepted>>
       ELSE LET business == businesses[idx] IN
            /\ idx' = idx + 1
            /\ UNCHANGED <<searchPc, handled>>
            /\ IF IsNewBusiness(business)
               THEN /\ scrapedUrls' = scrapedUrls \cup {business.url}
                    /\ scrapedCount' = scrapedCount + 1
                    /\ accepted' = Append(accepted, business)
                    /\ IF scrapeDetails
                       THEN queue' = Append(queue, business) /\ dataset' = dataset
                       ELSE dataset' = Append(dataset, business) /\ queue' = queue
               ELSE UNCHANGED <<scrapedCount, scrapedUrls, queue, dataset, accepted>>
    /\ UNCHANGED <<besidesDriver, inputMax, scrapeDetails, retries, businesses, active,
                   docInfo>>

\* the crawler opens the detail page of a queued request and calls requestHandler
StartDetail ==
    /\ queue # <<>>
    /\ CrawlerHasCapacity /\ CrawlerBelowLimit
    /\ active' = active \cup {Head(queue)}
    /\ queue' = Tail(queue)
    /\ UNCHANGED <<besidesDriver, inputMax, scrapeDetails, searchPc, retries, businesses, idx,
                   scrapedCount, scrapedUrls, dataset, handled, accepted, docInfo>>

\* if (isBusinessPage && scrapeDetails): extractBusinessDetails, then Dataset.pushData
DetailHandler ==
    /\ \E business \in active, page \in DetailPages :
         /\ dataset' = Append(dataset, ExtractBusinessDetails(page, business))
         /\ active' = active \ {business}
    /\ handled' = handled + 1
    /\ UNCHANGED <<besidesDriver, inputMax, scrapeDetails, searchPc, retries, businesses, idx,
                   scrapedCount, scrapedUrls, queue, accepted, docInfo>>

\* the request of a detail page fails (navigation error, timeout, blocked page) on every
\* try: failedRequestHandler logs the error, nothing else
DetailRequestFails ==
    /\ \E business \in active : active' = active \ {business}
    /\ handled' = handled + 1
    /\ UNCHANGED <<besidesDriver, inputMax, scrapeDetails, searchPc, retries, businesses, idx,
                   scrapedCount, scrapedUrls, queue, dataset, accepted, docInfo>>

DriverNext ==
    \/ StartSearch
    \/ SearchWait
    \/ SearchScroll
    \/ SearchExtract
    \/ SearchAccept
    \/ StartDetail
    \/ DetailHandler
    \/ DetailRequestFails

\* the driver at rest, for the specifications of the other components
DriverIdle ==
    /\ inputMax = [kind |-> "number", value |-> 0]
    /\ scrapeDetails = FALSE /\ searchPc = "idle" /\ retries = 0 /\ businesses = <<>>
    /\ idx = 0 /\ scrapedCount = 0 /\ scrapedUrls = {} /\ queue = <<>> /\ active = {}
    /\ dataset = <<>> /\ handled = 0 /\ accepted = <<>>
    /\ docInfo = [extracted |-> FALSE, duplicates |-> FALSE, fallback |-> FALSE,
                  distinct |-> 0]

\* ------------------------------------------------------------------------
\* extractReviewsFromPage (utils/reviewExtractor.js)
\* ------------------------------------------------------------------------
\* an aria-label is its characters, the word "star" standing as one of them
Star == "star"

\* /(\d+)\s*star/ tried at position i: the digits captured, <<>> without a match there
RECURSIVE SkipSpaces(_, _)
SkipSpaces(t, i) == IF i <= Len(t) /\ t[i] = " " THEN SkipSpaces(t, i + 1) ELSE i

StarMatchAt(t, i) ==
    LET n == DigitRun(t, i)
        j == SkipSpaces(t, i + n)
    IN  n > 0 /\ j <= Len(t) /\ t[j] = Star

\* label.match(/(\d+)\s*star/i)[1]: the capture of the leftmost match
StarMatch(t) ==
    IF \E i \in 1..Len(t) : StarMatchAt(t, i)
    THEN LET i == CHOOSE k \in 1..Len(t) :
                     StarMatchAt(t, k) /\ \A j \in 1..(k - 1) : ~StarMatchAt(t, j)
         IN  SubSeq(t, i, i + DigitRun(t, i) - 1)
    ELSE <<>>

\* a [data-review-id] container: the attribute's value, whether it holds a
\* span[role="img"][aria-label*="star"] and that label, and whether its subtitle is a
\* business listing's (no date, and an address / phone / hours pattern)
Container(id, hasStar, label, listing) ==
    [id |-> id, hasStar |-> hasStar, label |-> label, listing |-> listing]

Containers ==
    { Container("r1", TRUE, <<"5", " ", Star>>, FALSE),
      Container("r1", FALSE, <<>>, FALSE),
      Container("r2", TRUE, <<"4", ".", "5", " ", Star>>, FALSE),
      Container("r2", TRUE, <<"1", "0", " ", Star>>, FALSE),
      Container("", TRUE, <<"3", Star>>, FALSE),
      Container("review-1", TRUE, <<"4", " ", Star>>, FALSE),
      Container("r3", TRUE, <<"0", " ", Star>>, FALSE),
      Container("r3", TRUE, <<Star>>, FALSE),
      Container("r4", TRUE, <<"2", " ", Star>>, TRUE) }

Panels == SeqsUpTo(Containers, MaxPanel)

ReviewTargets == (1..MaxReviewTarget) \cup {Infinity}

\* rating = parseInt(ratingMatch[1]), null without the element or without a match
StarRating(c) ==
    IF ~c.hasStar \/ StarMatch(c.label) = <<>> THEN Null ELSE ParseInt(StarMatch(c.label))

\* mutant: a rating of 0 let through
ValidRatingFromZero(rating) == rating >= 0 /\ rating <= 5

\* rating >= 1 && rating <= 5
ValidRating(rating) == rating >= 1 /\ rating <= 5

\* container.getAttribute('data-review-id') || `review-${index}`
ReviewId(c, index) == IF c.id # "" THEN c.id ELSE "review-" \o ToString(index)

NoReview == [valid |-> FALSE, reviewId |-> "", rating |-> Null]

\* extractDataFromContainer(container, index): null without a rating in 1..5 and for a
\* business listing's card
ExtractDataFromContainer(c, index) ==
    IF StarRating(c) = Null \/ ~ValidRating(StarRating(c)) THEN NoReview
    ELSE IF c.listing THEN NoReview
    ELSE [valid |-> TRUE, reviewId |-> ReviewId(c, index), rating |-> StarRating(c)]

\* if (results.length >= max) break;
ReviewsFull(results, max) == ReachedTarget(Len(results), max)

\* for (const container of reviewContainers), from container i on
RECURSIVE ReviewLoop(_, _, _, _, _)
ReviewLoop(cs, i, results, processedReviewIds, max) ==
    IF i > Len(cs) \/ ReviewsFull(results, max) THEN results
    ELSE IF cs[i].id \in processedReviewIds
    THEN ReviewLoop(cs, i + 1, results, processedReviewIds, max)
    ELSE LET reviewData == ExtractDataFromContainer(cs[i], Len(results)) IN
         ReviewLoop(cs, i + 1,
                    IF reviewData.valid /\ ValidRating(reviewData.rating)
                    THEN Append(results, reviewData) ELSE results,
                    processedReviewIds \cup {cs[i].id}, max)

ExtractReviewsFromPage(cs, max) == ReviewLoop(cs, 1, <<>>, {}, max)

ReviewsInit ==
    /\ panel \in Panels
    /\ maxReviews \in ReviewTargets
    /\ rpc = "ready"
    /\ reviews = <<>>

\* const reviews = await page.evaluate((max) => { ... }, maxReviews);
ExtractReviews ==
    /\ rpc = "ready"
    /\ reviews' = ExtractReviewsFromPage(panel, maxReviews)
    /\ rpc' = "done"
    /\ UNCHANGED <<besidesReviews, panel, maxReviews>>

ReviewsNext == ExtractReviews

\* the extraction at rest, for the specifications of the other components
ReviewsIdle == panel = <<>> /\ maxReviews = Infinity /\ rpc = "idle" /\ reviews = <<>>

\* ------------------------------------------------------------------------
\* extractReviewsFromListing (utils/reviewExtractor.js)
\* ------------------------------------------------------------------------
\* log.warning(...) returns with a logger that has the method and throws a TypeError
\* with one that has not; an error thrown inside the try block is caught at its end
Throws(stage) ==
    /\ fpc' = "catch"
    /\ failedStages' = failedStages \cup {stage}
    /\ UNCHANGED <<flowRet, flowExit, closeAttempts>>

\* return from the function by the return statement named
Returns(count, exit) == fpc' = "returned" /\ flowRet' = count /\ flowExit' = exit

Started(stage) == trace' = Append(trace, stage)

\* mutant: the reviews tab clicked before the sidebar is waited for
NextStageTabFirst(stage) ==
    CASE stage = "bot" -> "click"
      [] stage = "click" -> "tab"
      [] stage = "tab" -> "wait"
      [] stage = "wait" -> "scroll"
      [] stage = "scroll" -> "extract"
      [] stage = "extract" -> "share"
      [] stage = "share" -> "close"

\* the statements of the try block in their order: the stage after a stage
NextStage(stage) ==
    CASE stage = "bot" -> "click"
      [] stage = "click" -> "wait"
      [] stage = "wait" -> "tab"
      [] stage = "tab" -> "scroll"
      [] stage = "scroll" -> "extract"
      [] stage = "extract" -> "share"
      [] stage = "share" -> "close"

FlowInit ==
    /\ fpc = "bot"
    /\ logWarns \in BOOLEAN
    /\ wantShare \in BOOLEAN
    /\ found = 0
    /\ shareIdx = 0
    /\ flowRet = 0
    /\ flowExit = "none"
    /\ trace = <<>>
    /\ closeAttempts = 0
    /\ failedStages = {}
    /\ botMarkers = FALSE
    /\ shareLog = <<>>

\* mutant: a bot check that never sees the markers
IsBotBlockedNever(shown) == FALSE

\* bodyText.includes('unusual traffic') || bodyText.includes('captcha') || ...
IsBotBlocked(shown) == shown

\* const isBotBlocked = await page.evaluate(...); if (isBotBlocked) { ...; return []; }
BotCheck ==
    /\ fpc = "bot"
    /\ Started("bot")
    /\ \E outcome \in {"clear", "blocked", "error"} :
         /\ botMarkers' = (outcome = "blocked")
         /\ IF outcome = "error" THEN Throws("bot")
            ELSE IF IsBotBlocked(outcome = "blocked")
            THEN /\ Returns(0, "blocked")
                 /\ failedStages' = failedStages \cup {"bot"}
                 /\ UNCHANGED closeAttempts
            ELSE /\ fpc' = NextStage("bot")
                 /\ UNCHANGED <<flowRet, flowExit, closeAttempts, failedStages>>
    /\ UNCHANGED <<besidesFlow, shareLog, logWarns, wantShare, found, shareIdx>>

\* const clicked = await clickOnListing(...); if (!clicked) { log.warning(...); return []; }
\* clickOnListing catches what is thrown inside it, logs a warning and returns false
ClickListing ==
    /\ fpc = "click"
    /\ Started("click")
    /\ \E clicked \in BOOLEAN :
         IF clicked
         THEN /\ fpc' = NextStage("click")
              /\ UNCHANGED <<flowRet, flowExit, closeAttempts, failedStages>>
         ELSE IF logWarns
         THEN /\ Returns(0, "noclick")
              /\ failedStages' = failedStages \cup {"click"}
              /\ UNCHANGED closeAttempts
         ELSE Throws("click")
    /\ UNCHANGED <<besidesFlow, botMarkers, shareLog, logWarns, wantShare, found, shareIdx>>

\* await waitForSidebar(page, log): a timeout is caught inside and logged as a warning
WaitForSidebar ==
    /\ fpc = "wait"
    /\ Started("wait")
    /\ \E loaded \in BOOLEAN :
         IF loaded
         THEN /\ fpc' = NextStage("wait")
              /\ UNCHANGED <<flowRet, flowExit, closeAttempts, failedStages>>
         ELSE IF logWarns
         THEN /\ fpc' = NextStage("wait")
              /\ failedStages' = failedStages \cup {"wait"}
              /\ UNCHANGED <<flowRet, flowExit, closeAttempts>>
         ELSE Throws("wait")
    /\ UNCHANGED <<besidesFlow, botMarkers, shareLog, logWarns, wantShare, found, shareIdx>>

\* mutant: the flow goes on without the reviews tab
AbandonsNever(reviewsOpened) == FALSE

\* if (!reviewsOpened)
AbandonsBusiness(reviewsOpened) == ~reviewsOpened

\* const reviewsOpened = await clickReviewsTab(page, log);
\* if (!reviewsOpened) { log.warning(...); await closeSidebar(page, log); return []; }
\* clickReviewsTab logs a warning on each of its ways to false
ClickReviewsTab ==
    /\ fpc = "tab"
    /\ \E opened \in BOOLEAN :
         IF ~opened /\ ~logWarns
         THEN Started("tab") /\ Throws("tab")
         ELSE IF AbandonsBusiness(opened)
         THEN /\ Returns(0, "notab")
              /\ trace' = trace \o <<"tab", "close">>
              /\ closeAttempts' = closeAttempts + 1
              /\ failedStages' = failedStages \cup {"tab"}
         ELSE /\ fpc' = NextStage("tab")
              /\ Started("tab")
              /\ failedStages' = IF opened THEN failedStages ELSE failedStages \cup {"tab"}
              /\ UNCHANGED <<flowRet, flowExit, closeAttempts>>
    /\ UNCHANGED <<besidesFlow, botMarkers, shareLog, logWarns, wantShare, found, shareIdx>>

\* await scrollReviewsPanel(page, targetReviews, log);
ScrollReviews ==
    /\ fpc = "scroll"
    /\ Started("scroll")
    /\ \E ok \in BOOLEAN :
         IF ok
         THEN /\ fpc' = NextStage("scroll")
              /\ UNCHANGED <<flowRet, flowExit, closeAttempts, failedStages>>
         ELSE Throws("scroll")
    /\ UNCHANGED <<besidesFlow, botMarkers, shareLog, logWarns, wantShare, found, shareIdx>>

\* if (extractShareLinks && reviews.length > 0)
ShareLinksWanted(count) == wantShare /\ count > 0

\* const reviews = await extractReviewsFromPage(page, targetReviews, log);
ExtractStage ==
    /\ fpc = "extract"
    /\ Started("extract")
    /\ \E ok \in BOOLEAN, count \in 0..MaxFound :
         IF ok
         THEN /\ found' = count
              /\ fpc' = IF ShareLinksWanted(count) THEN NextStage("extract")
                        ELSE NextStage("share")
              /\ UNCHANGED <<flowRet, flowExit, closeAttempts, failedStages>>
         ELSE Throws("extract") /\ UNCHANGED found
    /\ UNCHANGED <<besidesFlow, botMarkers, shareLog, logWarns, wantShare, shareIdx>>

\* what one turn of the loop of extractShareLinksForReviews meets: the share button
\* is missing, the click throws, reading the link throws, the dialog holds no link, or
\* the link is read
ShareOutcomes == {"noButton", "clickError", "urlError", "noUrl", "linked"}

\* the call that threw inside the try of the turn ("none": no call threw)
ShareFailedAt(outcome, closeFails) ==
    CASE outcome = "clickError" -> "click"
      [] outcome = "urlError" -> "url"
      [] outcome \in {"noUrl", "linked"} /\ closeFails -> "close"
      [] OTHER -> "none"

\* catch (error) { log.warning(...): the call returns only if the logger has warning()
ShareCatchLogs == logWarns

\* the calls of closeShareDialog in the turn: at the end of the try when a button was
\* clicked and the link read or found missing, and in the catch once its log returned
ShareCloses(outcome, closeFails) ==
    (IF outcome \in {"noUrl", "linked"} THEN 1 ELSE 0)
        + (IF ShareFailedAt(outcome, closeFails) # "none" /\ ShareCatchLogs THEN 1 ELSE 0)

\* the turn of one review as the loop leaves it
ShareTurn(outcome, closeFails) ==
    [clicked |-> outcome \in {"urlError", "noUrl", "linked"},
     shareLink |-> IF outcome = "linked" THEN "url" ELSE NullText,
     failedAt |-> ShareFailedAt(outcome, closeFails),
     closes |-> ShareCloses(outcome, closeFails)]

\* One turn of the loop of extractShareLinksForReviews. What the turn's catch throws
\* (log.warning missing on the logger) leaves the loop and the function.
ShareLink ==
    /\ fpc = "share"
    /\ trace' = IF shareIdx = 0 THEN Append(trace, "share") ELSE trace
    /\ \E outcome \in ShareOutcomes, closeFails \in BOOLEAN :
         /\ shareLog' = Append(shareLog, ShareTurn(outcome, closeFails))
         /\ IF ShareFailedAt(outcome, closeFails) # "none" /\ ~ShareCatchLogs
            THEN Throws("share") /\ UNCHANGED shareIdx
            ELSE /\ shareIdx' = shareIdx + 1
                 /\ fpc' = IF shareIdx + 1 < found THEN "share" ELSE NextStage("share")
                 /\ failedStages' =
                        IF ShareFailedAt(outcome, closeFails) # "none"
                        THEN failedStages \cup {"share"} ELSE failedStages
                 /\ UNCHANGED <<flowRet, flowExit, closeAttempts>>
    /\ UNCHANGED <<besidesFlow, botMarkers, logWarns, wantShare, found>>

\* await closeSidebar(page, log); ...; return reviews;
\* closeSidebar returns after the Back button or once the feed is seen again; it logs a
\* warning when the feed is not seen again and when a page call inside it throws
CloseSidebar ==
    /\ fpc = "close"
    /\ Started("close")
    /\ closeAttempts' = closeAttempts + 1
    /\ \E outcome \in {"closed", "unverified", "error"} :
         IF outcome = "closed"
         THEN Returns(found, "done") /\ UNCHANGED failedStages
         ELSE IF logWarns
         THEN /\ Returns(found, "done")
              /\ failedStages' = IF outcome = "error" THEN failedStages \cup {"close"}
                                 ELSE failedStages
         ELSE /\ fpc' = "catch"
              /\ failedStages' = failedStages \cup {"close"}
              /\ UNCHANGED <<flowRet, flowExit>>
    /\ UNCHANGED <<besidesFlow, botMarkers, shareLog, logWarns, wantShare, found, shareIdx>>

\* mutant: a catch block that only logs
CatchOnlyLogs == FALSE

\* the catch block calls closeSidebar
CatchClosesSidebar == TRUE

\* } catch (error) { log.error(...); try { await closeSidebar(page, log); } catch (e) {}
\*                   return []; }
Catch ==
    /\ fpc = "catch"
    /\ IF CatchClosesSidebar
       THEN Started("cleanup") /\ closeAttempts' = closeAttempts + 1
       ELSE UNCHANGED <<trace, closeAttempts>>
    /\ Returns(0, "caught")
    /\ UNCHANGED <<besidesFlow, botMarkers, shareLog, logWarns, wantShare, found, shareIdx,
                   failedStages>>

FlowNext ==
    \/ BotCheck
    \/ ClickListing
    \/ WaitForSidebar
    \/ ClickReviewsTab
    \/ ScrollReviews
    \/ ExtractStage
    \/ ShareLink
    \/ CloseSidebar
    \/ Catch

\* the review flow at rest, for the specifications of the other components
FlowIdle ==
    /\ fpc = "idle" /\ logWarns = TRUE /\ wantShare = FALSE /\ found = 0 /\ shareIdx = 0
    /\ flowRet = 0 /\ flowExit = "none" /\ trace = <<>> /\ closeAttempts = 0
    /\ failedStages = {} /\ botMarkers = FALSE /\ shareLog = <<>>

\* ------------------------------------------------------------------------
\* extractEnrichmentData (utils/listingExtractor.js)
\* ------------------------------------------------------------------------
\* The email candidates of the model's pages, with email.toLowerCase() and what
\* isValidEmail makes of them:
\*   "info@joespizza.com", "sales@joespizza.com"   valid
\*   "Info@JoesPizza.com"                          valid; lower case "info@joespizza.com"
\*   "noreply@joespizza.com"                       invalid (/^(noreply|...)/i)
\*   "logo@2x.png"                                 invalid (/\.(png|...)$/i)
ToLowerCase(email) ==
    IF email = "Info@JoesPizza.com" THEN "info@joespizza.com" ELSE email

\* function isValidEmail(email)
IsValidEmail(email) ==
    email \in {"info@joespizza.com", "sales@joespizza.com", "Info@JoesPizza.com"}

\* function extractEmailsFromText(text); matched: what the patterns match in the text
ExtractEmailsFromText(matched) ==
    {ToLowerCase(e) : e \in {m \in matched : IsValidEmail(m)}}

Platforms == {"facebook", "instagram"}

\* a match of a social pattern: scheme ("" when the match has none), host, the handle in
\* lower case, whether a slash ends it
SocialMatch(scheme, host, handle, slash) ==
    [scheme |-> scheme, host |-> host, handle |-> handle, slash |-> slash]

\* match.toLowerCase().replace(/\/$/, '');  url.startsWith('http') ? url : 'https://' + url
FullUrl(m) ==
    [scheme |-> IF m.scheme \in {"http://", "https://"} THEN m.scheme ELSE "https://",
     host |-> m.host, handle |-> m.handle]

\* url === 'https://www.facebook.com' and its three variants
IsBareDomain(m) == m.handle = ""

\* the first match of one pattern that is not the bare domain (<<>>: none)
FirstProfile(matches) ==
    LET kept == SelectSeq(matches, LAMBDA m : ~IsBareDomain(m)) IN
    IF kept = <<>> THEN <<>> ELSE <<FullUrl(kept[1])>>

\* the patterns of one platform in turn: each pattern with a profile overwrites
\* social[platform] (<<>>: the platform was not found)
RECURSIVE PlatformProfile(_, _, _)
PlatformProfile(byPattern, i, profile) ==
    IF i > Len(byPattern) THEN profile
    ELSE PlatformProfile(byPattern, i + 1,
                         IF FirstProfile(byPattern[i]) # <<>>
                         THEN FirstProfile(byPattern[i]) ELSE profile)

\* function extractSocialLinks(content, links); matches: for each platform, the matches
\* of each of its patterns. The result holds the platforms found and no other
ExtractSocialLinks(matches) ==
    LET present == {p \in Platforms : PlatformProfile(matches[p], 1, <<>>) # <<>>} IN
    [p \in present |-> PlatformProfile(matches[p], 1, <<>>)[1]]

\* what a page shows: the email candidates of its text, of its html and of its mailto
\* links, the matches of the social patterns, and the contact page findContactPageUrl
\* picks among its links (null: none)
PageData(textEmails, htmlEmails, mailtoLinks, social, contactUrl) ==
    [textEmails |-> textEmails, htmlEmails |-> htmlEmails, mailtoLinks |-> mailtoLinks,
     social |-> social, contactUrl |-> contactUrl]

NoMatches == [facebook |-> <<<<>>, <<>>>>, instagram |-> <<<<>>>>]
JoesFacebook == SocialMatch("https://", "www.facebook.com", "joes", TRUE)
JoesFb == SocialMatch("", "fb.com", "joespizza", FALSE)
OldFacebook == SocialMatch("", "facebook.com", "joes.old", FALSE)
JoesInstagram == SocialMatch("https://", "www.instagram.com", "joes", FALSE)

HomeUrl == "https://joespizza.com"
ContactUrl == "https://joespizza.com/contact"

BasePages ==
    { PageData({}, {}, {}, NoMatches, NullText),
      PageData({"info@joespizza.com"}, {"logo@2x.png"}, {"Info@JoesPizza.com"},
               [NoMatches EXCEPT !.facebook = <<<<JoesFacebook>>, <<>>>>], ContactUrl),
      PageData({}, {"noreply@joespizza.com"}, {},
               [NoMatches EXCEPT !.facebook = <<<<JoesFacebook>>, <<JoesFb>>>>],
               ContactUrl),
      PageData({"sales@joespizza.com"}, {}, {}, NoMatches, HomeUrl) }

ContactPages ==
    { PageData({}, {}, {}, NoMatches, NullText),
      PageData({"sales@joespizza.com"}, {}, {"sales@joespizza.com", "Info@JoesPizza.com"},
               [facebook |-> <<<<OldFacebook>>, <<>>>>, instagram |-> <<<<JoesInstagram>>>>],
               NullText),
      PageData({"info@joespizza.com", "noreply@joespizza.com"}, {}, {},
               [NoMatches EXCEPT !.facebook = <<<<OldFacebook>>, <<>>>>], NullText) }

\* const enrichment = { contact_page_url: null, emails_found: [], social: {} };
\* (emails_found as the set of its entries, social as a function of the platforms found)
EmptyEnrichment == [contact_page_url |-> NullText, emails_found |-> {}, social |-> <<>>]

\* allEmails = [...new Set([...textEmails, ...htmlEmails, ...pageData.mailtoLinks])];
\* enrichment.emails_found = allEmails.filter(isValidEmail);
BaseEmails(page) ==
    {e \in ExtractEmailsFromText(page.textEmails) \cup ExtractEmailsFromText(page.htmlEmails)
            \cup page.mailtoLinks : IsValidEmail(e)}

\* contactEmails = [...text, ...html, ...mailtoLinks].filter(isValidEmail)
ContactEmails(page) == BaseEmails(page)

\* mutant: the contact page's profile replacing the base page's
MergeSocialContactWins(base, contact) ==
    [p \in DOMAIN base \cup DOMAIN contact |->
        IF p \in DOMAIN contact THEN contact[p] ELSE base[p]]

\* enrichment.social = { ...contactSocial, ...enrichment.social };
MergeSocial(base, contact) ==
    [p \in DOMAIN base \cup DOMAIN contact |->
        IF p \in DOMAIN base THEN base[p] ELSE contact[p]]

\* enrichment.emails_found = [...new Set([...enrichment.emails_found, ...contactEmails])];
MergeEmails(base, contact) == base \cup contact

\* mutant: the contact page visited whatever the option and the url found
FollowsContactAlways == TRUE

\* followContactPage && enrichment.contact_page_url && contact_page_url !== websiteUrl
FollowsContact ==
    followContactPage /\ ~Falsy(enrichment.contact_page_url)
        /\ enrichment.contact_page_url # websiteUrl

EnrichInit ==
    /\ epc = "start"
    /\ websiteUrl \in {NullText, "", HomeUrl}
    /\ followContactPage \in BOOLEAN
    /\ basePage \in BasePages
    /\ contactPage \in ContactPages
    /\ enrichment = EmptyEnrichment
    /\ enrichExit = "running"
    /\ enrichLog = {}

\* mutant: the outer catch rethrowing
OuterCatchRethrows == "thrown"

\* catch (error) { log.warning?.(...) || console.log(...) } return enrichment;
OuterCatch == "returned"

\* an error reaching the outer catch at the named step
EnrichCaught(step) ==
    /\ epc' = "done"
    /\ enrichExit' = OuterCatch
    /\ enrichLog' = enrichLog \cup {step}

\* return enrichment;
EnrichReturns == epc' = "done" /\ enrichExit' = "returned"

\* if (!websiteUrl) return enrichment;
EnrichStart ==
    /\ epc = "start"
    /\ IF Falsy(websiteUrl) THEN EnrichReturns ELSE epc' = "nav" /\ UNCHANGED enrichExit
    /\ UNCHANGED <<besidesEnrich, websiteUrl, followContactPage, basePage, contactPage,
                   enrichment, enrichLog>>

\* mutant: a navigation timeout thrown again like any other error
RethrownAlways(navError) == TRUE

\* if (!navError.message.includes('timeout')) throw navError;
Rethrown(navError) == navError # "timeout"

\* page.goto(websiteUrl): a timeout is logged and the call goes on, any other error is
\* thrown again
Navigate ==
    /\ epc = "nav"
    /\ \E outcome \in {"ok", "timeout", "error"} :
          IF outcome # "ok" /\ Rethrown(outcome)
          THEN EnrichCaught(IF outcome = "timeout" THEN "timeout" ELSE "navigation")
          ELSE /\ epc' = "eval"
               /\ enrichLog' =
                    IF outcome = "timeout" THEN enrichLog \cup {"timeout"}
                    ELSE enrichLog
               /\ UNCHANGED enrichExit
    /\ UNCHANGED <<besidesEnrich, websiteUrl, followContactPage, basePage, contactPage,
                   enrichment>>

\* the evaluation of the main page, the emails, the social links, the contact page url
EvaluateBase ==
    /\ epc = "eval"
    /\ \E outcome \in {"ok", "error"} :
          IF outcome = "error" THEN EnrichCaught("evaluation") /\ UNCHANGED enrichment
          ELSE /\ enrichment' = [contact_page_url |-> basePage.contactUrl,
                                 emails_found |-> BaseEmails(basePage),
                                 social |-> ExtractSocialLinks(basePage.social)]
               /\ epc' = "contact"
               /\ UNCHANGED <<enrichExit, enrichLog>>
    /\ UNCHANGED <<besidesEnrich, websiteUrl, followContactPage, basePage, contactPage>>

\* the visit of the contact page, in its own try: what it throws is logged only
VisitContact ==
    /\ epc = "contact"
    /\ IF ~FollowsContact THEN EnrichReturns /\ UNCHANGED <<enrichment, enrichLog>>
       ELSE \E outcome \in {"ok", "navigation", "evaluation"} :
               /\ EnrichReturns
               /\ IF outcome = "ok"
                  THEN /\ enrichment' =
                            [enrichment EXCEPT
                                !.emails_found = MergeEmails(@, ContactEmails(contactPage)),
                                !.social =
                                    MergeSocial(@, ExtractSocialLinks(contactPage.social))]
                       /\ enrichLog' = enrichLog \cup {"visited"}
                  ELSE /\ enrichLog' = enrichLog \cup {"contact " \o outcome}
                       /\ UNCHANGED enrichment
    /\ UNCHANGED <<besidesEnrich, websiteUrl, followContactPage, basePage, contactPage>>

EnrichNext ==
    \/ EnrichStart
    \/ Navigate
    \/ EvaluateBase
    \/ VisitContact

\* no enrichment call, for the specifications of the other components
EnrichIdle ==
    /\ epc = "idle"
    /\ websiteUrl = NullText
    /\ followContactPage = FALSE
    /\ basePage = PageData({}, {}, {}, NoMatches, NullText)
    /\ contactPage = PageData({}, {}, {}, NoMatches, NullText)
    /\ enrichment = EmptyEnrichment
    /\ enrichExit = "running"
    /\ enrichLog = {}

\* ------------------------------------------------------------------------
\* One call of a function of the listing pass or of the details pass
\* ------------------------------------------------------------------------
MaxLinks == 2       \* anchors with href of an article
MaxSpans == 3       \* spans of an article
MaxCallDoc == 3     \* elements of the document of a call
MaxSocial == 5      \* platforms of the social record of a scored business
MaxAutoCount == 2   \* reviews the page shows at a poll: 0..MaxAutoCount

\* the anchors of an article: a div holding 2 to 6 anchors holds none or at least two
WebLinks ==
    { WebLink(JoesSite, "none", FALSE), WebLink(JoesSite, "none", TRUE),
      WebLink(OrderSite, "none", FALSE), WebLink(OrderSite, "hint", TRUE),
      WebLink(CdnSite, "button", FALSE),
      WebLink(AdClick, "none", FALSE), WebLink(AdClick, "none", TRUE),
      WebLink(MapsDir, "button", FALSE), WebLink(MapsDir, "none", TRUE),
      WebLink(Facebook, "none", FALSE), WebLink(Facebook, "none", TRUE),
      WebLink(Facebook, "button", FALSE), WebLink(Facebook, "hint", FALSE),
      WebLink(TikTok, "none", FALSE), WebLink(TikTok, "none", TRUE),
      WebLink(Script, "none", TRUE) }

Clustered(links) == {i \in 1..Len(links) : links[i].clustered}

LinkLists ==
    {l \in SeqsUpTo(WebLinks, MaxLinks) : Cardinality(Clustered(l)) # 1}

SpanLists == SeqsUpTo(Fragments, MaxSpans)

JoesCard ==
    Card(<<<<"Joe's Pizza">>, <<>>, <<>>>>, FALSE,
    <<WebLink(JoesSite, "none", FALSE)>>,
    <<"Joe's Pizza", "4.5", "(212)", "Italian restaurant", "123 Main Street",
      "Open 24 hours">>,
    <<>>, NullText, NullText)

\* the cards of the documents of a call
Cards ==
    { PlainCard,
      JoesCard,
      Card(<<<<>>, <<>>, <<"", "Pizza">>>>, TRUE,
           <<WebLink(AdClick, "none", FALSE)>>, <<"Sponsored", "Coffee shop, Amsterdam">>,
           <<Button("", NullText), Button("020 123 4567", "Opens 9 AM")>>,
           NullText, NullText),
      Card(<<<<>>, <<>>, <<>>>>, FALSE, <<WebLink(Facebook, "button", FALSE)>>,
           <<"Closed">>, <<Button(NullText, NullText)>>, "12 Damstraat", "020 765 4321") }

\* the articles showing each card
CardElements ==
    {WithCard(Element(TRUE, <<PlaceA>>, <<"4", ".", "5">>, <<"2", "1", "2">>, FALSE), c) :
        c \in Cards}

\* the elements of the documents of a call: articles, an article without place link,
\* articles that throw, anchors outside the articles
CallElements ==
    { WithCard(Element(TRUE, <<PlaceA>>, <<"4", ".", "5">>, <<"2", "1", "2">>, FALSE),
               JoesCard),
      Element(TRUE, <<SearchHref, PlaceB>>, <<>>, <<>>, FALSE),
      Element(TRUE, <<PlaceC>>, <<"3">>, <<>>, FALSE),
      Element(TRUE, <<SearchHref>>, <<"5">>, <<>>, FALSE),
      Element(TRUE, <<PlaceA>>, <<>>, <<>>, TRUE),
      Element(TRUE, <<PlaceB>>, <<>>, <<>>, TRUE),
      Element(FALSE, <<PlaceA>>, <<>>, <<>>, FALSE),
      WithCard(Element(FALSE, <<PlaceB>>, <<>>, <<>>, FALSE),
               Card(<<<<>>, <<>>, <<>>>>, FALSE, <<>>, <<>>, <<>>, NullText, NullText)) }

CallDocs == SeqsUpTo(CallElements, MaxCallDoc)

\* the businesses handed to the details pass: what the listing pass makes of one element
CallBusinesses ==
    UNION { {ExtractBusinessListings(<<e>>, Infinity)[i] :
                i \in 1..Len(ExtractBusinessListings(<<e>>, Infinity))} :
            e \in CallElements \cup CardElements }

CallDetailPages ==
    DetailPages
    \cup { WithTexts(DetailPage(TRUE, <<"4", ".", "8">>, <<>>),
                     DetailTexts("Joe's Pizza Amsterdam", "Damrak 1, Amsterdam",
                                 "020 555 0100", JoesSite, "Open", "Pizza restaurant",
                                 "Price: Moderate", "9V2X+5C")),
           WithTexts(DetailPage(TRUE, <<>>, <<"3">>),
                     DetailTexts("Joe's", "", NullText, NullHref, NullText, "Pizza restaurant",
                                 NullText, NullText)),
           WithTexts(DetailPage(FALSE, <<"4", ".", "8">>, <<"3">>),
                     DetailTexts("Joe's Pizza Amsterdam", "Damrak 1, Amsterdam",
                                 "020 555 0100", JoesSite, "Open", "Pizza restaurant",
                                 "Price: Moderate", "9V2X+5C")) }

\* ------------------------------------------------------------------------
\* Quality score (listingExtractor.js, calculateQualityScore)
\* ------------------------------------------------------------------------
\* if (business.rating), if (business.reviewCount): a number that is neither 0 nor NaN
TruthyNumber(n) == n \notin {Null, NaN, 0}

\* the points are counted in halves, the score in tenths
BasePoints(business) ==
    (IF ~Falsy(business.name) THEN 2 ELSE 0)
    + (IF ~Falsy(business.phone) THEN 2 ELSE 0)
    + (IF business.website # NullHref THEN 2 ELSE 0)
    + (IF ~Falsy(business.address) THEN 2 ELSE 0)
    + (IF TruthyNumber(business.rating) THEN 1 ELSE 0)
    + (IF TruthyNumber(business.reviewCount) THEN 1 ELSE 0)

SocialPointsUncapped(socialCount) == socialCount

\* Math.min(socialCount * 0.5, 2)
SocialPoints(socialCount) == Min(socialCount, 4)

\* business.enrichment is absent (<<>>) or one record
EnrichmentPoints(business) ==
    IF business.enrichment = <<>> THEN 0
    ELSE LET e == business.enrichment[1] IN
         (IF e.emails_found # {} THEN 4 ELSE 0)
         + (IF ~Falsy(e.contact_page_url) THEN 2 ELSE 0)
         + SocialPoints(Cardinality(DOMAIN e.social))

\* Math.round of a number of halves: a half goes up
MathRound(halves) == (halves + 1) \div 2

\* Math.round((score / maxScore) * 10) / 10, in tenths; the business is only read
CalculateQualityScore(business) ==
    [score |-> MathRound(BasePoints(business) + EnrichmentPoints(business)),
     business |-> business]

AllPlatforms == <<"facebook", "instagram", "linkedin", "twitter", "youtube", "tiktok",
                  "pinterest", "yelp">>

\* a social record with the first n platforms
SocialOf(n) == [p \in {AllPlatforms[i] : i \in 1..n} |-> "https://" \o p \o ".com/joespizza"]

ScoreEnrichments ==
    {<<>>}
    \cup { <<[emails_found |-> m, contact_page_url |-> c, social |-> SocialOf(n)]>> :
             m \in {{}, {"info@joespizza.com"}}, c \in {NullText, ContactUrl},
             n \in 0..MaxSocial }

ScoreBusinesses ==
    [name : {"", "Joe's Pizza"}, phone : {NullText, "020 555 0100"},
     website : {NullHref, JoesSite}, address : {NullText, "Damrak 1, Amsterdam"},
     rating : {Null, 0, 45}, reviewCount : {Null, 0, 212},
     enrichment : ScoreEnrichments]

\* ------------------------------------------------------------------------
\* The keys of a pushed business (listingExtractor.js 426-438, main.js 395-433, 535-605)
\* ------------------------------------------------------------------------
\* results.push({ name, url, rating, ..., scrapedAt }): the keys of a listing record
ListingKeys ==
    {"name", "url", "rating", "reviewCount", "category", "address", "phone", "website",
     "hoursStatus", "isSponsored", "scrapedAt"}

\* if (details.x) business.x = details.x: the keys the merge assigns
DetailsAssigns(page) ==
    IF ~page.ok THEN {}
    ELSE LET d == page.texts IN
         {k \in {"name"} : Found(d.name)}
         \cup {k \in {"rating"} : DetailsRating(page) # Null}
         \cup {k \in {"reviewCount"} : DetailsReviewCount(page) # Null}
         \cup {k \in {"address"} : Found(d.address)}
         \cup {k \in {"phone"} : Found(d.phone)}
         \cup {k \in {"website"} : d.website # NullHref}
         \cup {k \in {"hoursStatus"} : Found(d.hoursStatus)}
         \cup {k \in {"category"} : Found(d.category)}
         \cup {k \in {"priceLevel"} : Found(d.priceLevel)}
         \cup {k \in {"plusCode"} : Found(d.plusCode)}

\* Dataset.pushData(business), after extractBusinessDetails when scrapeDetails is on
PushedItem(page, business, details) ==
    [item |-> IF details THEN ExtractBusinessDetails(page, business) ELSE business,
     keys |-> IF details THEN ListingKeys \cup DetailsAssigns(page) ELSE ListingKeys]

\* ------------------------------------------------------------------------
\* clickOnListing (reviewExtractor.js 91-166), on the listings view
\* ------------------------------------------------------------------------
\* a name without ASCII letter or digit
Kanji == "寿司"

\* str.toLowerCase().replace(/[^a-z0-9]/g, '') on the names and labels of the model
Normalize(str) ==
    CASE str = "Joe's Pizza" -> "joespizza"
      [] str = "Joe's" -> "joes"
      [] str = "Mario's" -> "marios"
      [] OTHER -> ""

\* a.includes(b) on the normalized strings of the model
Includes(a, b) == b = "" \/ a = b \/ (a = "joespizza" /\ b = "joes")

\* if (a.includes(normalizedName) || normalizedName.includes(a))
EitherIncludes(a, b) == Includes(a, b) \/ Includes(b, a)

\* an a[href*="/maps/place/"]: its href, the decoded place segment of the href, its text
ClickLink(url, place, text) == [url |-> url, place |-> place, text |-> text]

\* a div[role="article"]: its aria-label and the index of its place link, 0 without one
ClickArticle(label, link) == [label |-> label, link |-> link]

NoClick == [clicked |-> "false", kind |-> "none", at |-> 0, ret |-> FALSE]

Click(method, kind, at) == [clicked |-> method, kind |-> kind, at |-> at, ret |-> TRUE]

FirstLink(links, Test(_)) ==
    IF \E i \in 1..Len(links) : Test(links[i])
    THEN CHOOSE i \in 1..Len(links) : Test(links[i]) /\ \A k \in 1..(i - 1) : ~Test(links[k])
    ELSE 0

\* mutant: one pass over the links, the first that matches by url, exactly or not
ClickOnListingInDocumentOrder(links, articles, business) ==
    LET normalizedName == Normalize(business.name)
        UrlMatch(l) ==
            l.url = business.url \/ EitherIncludes(Normalize(l.place), normalizedName)
        first == FirstLink(links, UrlMatch)
    IN  IF first = 0 THEN NoClick
        ELSE IF links[first].url = business.url THEN Click("url-exact", "link", first)
        ELSE Click("url-partial", "link", first)

\* the page.evaluate of clickOnListing and return !!clicked
ClickOnListing(links, articles, business) ==
    LET normalizedName == Normalize(business.name)
        UrlExact(l) == l.url = business.url
        UrlPartial(l) == EitherIncludes(Normalize(l.place), normalizedName)
        AriaMatch(a) == EitherIncludes(Normalize(a.label), normalizedName)
        TextMatch(l) == EitherIncludes(Normalize(l.text), normalizedName)
        exact == FirstLink(links, UrlExact)
        partial == FirstLink(links, UrlPartial)
        article == FirstLink(articles, AriaMatch)
        byText == FirstLink(links, TextMatch)
    IN  IF exact # 0 THEN Click("url-exact", "link", exact)
        ELSE IF partial # 0 THEN Click("url-partial", "link", partial)
        ELSE IF article # 0
             THEN IF articles[article].link # 0
                  THEN Click("article-aria", "link", articles[article].link)
                  ELSE Click("article-click", "article", article)
        ELSE IF byText # 0 THEN Click("link-text", "link", byText)
        ELSE NoClick

ClickLinks ==
    {ClickLink("A", "Joe's Pizza", "Joe's Pizza"), ClickLink("B", "Mario's", "Mario's"),
     ClickLink("C", Kanji, ""), ClickLink("D", Kanji, "Joe's"),
     ClickLink("G", "Joe's", "Joe's"), ClickLink("H", "Mario's", "Joe's Pizza")}

ClickBusinesses ==
    {[url |-> "A", name |-> "Joe's Pizza"], [url |-> "E", name |-> "Joe's"],
     [url |-> "E", name |-> Kanji], [url |-> "E", name |-> "Mario's"],
     [url |-> "F", name |-> "Luigi's"]}

\* the listings view: the place links and, around some of them, articles
ClickPages ==
    { [links |-> ls, articles |-> as] :
        ls \in SeqsUpTo(ClickLinks, MaxLinks),
        as \in {<<>>} \cup { <<ClickArticle(label, k)>> :
                                label \in {"Joe's Pizza", "Mario's", ""}, k \in 0..1 } }

\* ------------------------------------------------------------------------
\* closeSidebar (reviewExtractor.js 729-826): what it tries, in order
\* ------------------------------------------------------------------------
\* the page as closeSidebar meets it: a Close button, a Back button, the detail view
\* still shown after the first Escape, the feed shown at the end, and the page call
\* that throws ("none": no call throws)
SidebarPages ==
    [closeButton : BOOLEAN, backButton : BOOLEAN, stillInDetail : BOOLEAN,
     backToListings : BOOLEAN, throwsAt : {"none", "dialog", "back", "escape", "verify"},
     logWarns : BOOLEAN]

\* closeShareDialog: a Close button is looked for and clicked, Escape without one
CloseShareDialog(pg) == IF pg.closeButton THEN <<"close">> ELSE <<"close", "escape">>

\* the end of closeSidebar: log.warning returns only on a logger that has it
SidebarEnd(steps, warns, pg) ==
    [steps |-> steps, thrown |-> warns /\ ~pg.logWarns]

\* closeSidebar(page, log): the strategies tried, in order, "verify" for the check that
\* the feed is shown, and whether an error leaves the function
CloseSidebarSteps(pg) ==
    IF pg.throwsAt = "dialog" THEN SidebarEnd(<<"close">>, TRUE, pg)
    ELSE LET dialog == CloseShareDialog(pg) IN
    IF pg.throwsAt = "back" THEN SidebarEnd(dialog \o <<"back">>, TRUE, pg)
    ELSE IF pg.backButton THEN SidebarEnd(dialog \o <<"back">>, FALSE, pg)
    ELSE IF pg.throwsAt = "escape" THEN SidebarEnd(dialog \o <<"back", "escape">>, TRUE, pg)
    ELSE LET tried == dialog \o <<"back", "escape">>
                      \o (IF pg.stillInDetail THEN <<"escape", "back", "close">> ELSE <<>>)
         IN  IF pg.throwsAt = "verify" THEN SidebarEnd(tried \o <<"verify">>, TRUE, pg)
             ELSE SidebarEnd(tried \o <<"verify">>, ~pg.backToListings, pg)

Names == {"Joe's Pizza", "Unknown Business"}

CallInit ==
    /\ \/ fn = "details" /\ input \in [page : CallDetailPages, business : CallBusinesses]
       \/ fn = "website" /\ input \in [links : LinkLists]
       \/ fn = "spans" /\ input \in [spans : SpanLists, name : Names]
       \/ fn = "listings" /\ input \in [doc : CallDocs, max : Targets]
       \/ fn = "score" /\ input \in [business : ScoreBusinesses]
       \/ fn = "click" /\ input \in { [page |-> pg, business |-> b] :
                                          pg \in {q \in ClickPages :
                                                     \A i \in 1..Len(q.articles) :
                                                        q.articles[i].link <= Len(q.links)},
                                          b \in ClickBusinesses }
       \/ fn = "close" /\ input \in [page : SidebarPages]
       \/ fn = "push" /\ input \in [page : CallDetailPages, business : CallBusinesses,
                                     details : BOOLEAN]
    /\ applied = FALSE
    /\ output = <<>>

Returned(value) ==
    /\ ~applied
    /\ applied' = TRUE
    /\ output' = value
    /\ UNCHANGED <<fn, input, besidesCall>>

\* extractBusinessDetails(page, business)
ApplyDetails ==
    /\ fn = "details"
    /\ Returned(ExtractBusinessDetails(input.page, input.business))

\* the website resolution of one article
ApplyWebsite ==
    /\ fn = "website"
    /\ Returned(ResolveWebsite(input.links))

\* the span loop of one article
ApplySpans ==
    /\ fn = "spans"
    /\ Returned(ClassifySpans(input.spans, input.name))

\* extractBusinessListings(page, maxResults)
ApplyListings ==
    /\ fn = "listings"
    /\ Returned(ExtractBusinessListings(input.doc, input.max))

\* calculateQualityScore(business)
ApplyScore ==
    /\ fn = "score"
    /\ Returned(CalculateQualityScore(input.business))

\* the business a handler pushes to the dataset
ApplyPush ==
    /\ fn = "push"
    /\ Returned(PushedItem(input.page, input.business, input.details))

\* clickOnListing(page, business, log)
ApplyClick ==
    /\ fn = "click"
    /\ Returned(ClickOnListing(input.page.links, input.page.articles, input.business))

\* closeSidebar(page, log)
ApplyClose ==
    /\ fn = "close"
    /\ Returned(CloseSidebarSteps(input.page))

CallNext ==
    \/ ApplyDetails
    \/ ApplyWebsite
    \/ ApplySpans
    \/ ApplyListings
    \/ ApplyScore
    \/ ApplyPush
    \/ ApplyClick
    \/ ApplyClose

\* no call, for the specifications of the other components
CallIdle == fn = "none" /\ input = <<>> /\ applied = FALSE /\ output = <<>>

\* ------------------------------------------------------------------------
\* Actor.main, from the input to crawler.run (main.js 438-623)
\* ------------------------------------------------------------------------
\* String.prototype.trim on the queries of the model
Trim(text) ==
    CASE text = "  " -> ""
      [] text = " pizza " -> "pizza"
      [] OTHER -> text

Query(kind, text) == [kind |-> kind, text |-> text]

Queries ==
    {Query("undefined", ""), Query("null", ""), Query("number", "5")}
    \cup {Query("string", t) : t \in {"", "  ", "pizza", " pizza "}}

\* !searchQuery
FalsyQuery(q) == q.kind \in {"undefined", "null"} \/ (q.kind = "string" /\ q.text = "")

IsRejectedUntrimmed(q) == FalsyQuery(q)

\* if (!searchQuery || !searchQuery.trim())
IsRejected(q) == FalsyQuery(q) \/ Trim(q.text) = ""

ActorInputs ==
    [present : BOOLEAN, searchQuery : Queries, proxy : {"apify", "urls", "none"},
     scrapeDetails : BOOLEAN]

MainInit ==
    /\ mpc = "input"
    /\ actorInput \in ActorInputs
    /\ startLog = <<>>
    /\ fatal = "none"

Fatal(message) ==
    /\ mpc' = "fatal"
    /\ fatal' = message
    /\ UNCHANGED <<actorInput, startLog, besidesMain>>

Step(next, effects) ==
    /\ mpc' = next
    /\ startLog' = startLog \o effects
    /\ UNCHANGED <<actorInput, fatal, besidesMain>>

\* const input = await Actor.getInput(); if (!input) throw
GetInput ==
    /\ mpc = "input"
    /\ IF ~actorInput.present THEN Fatal("No input provided!") ELSE Step("validate", <<>>)

\* the validation of searchQuery; trim of a value that is no string is a TypeError
ValidateInput ==
    /\ mpc = "validate"
    /\ LET q == actorInput.searchQuery IN
       IF ~FalsyQuery(q) /\ q.kind # "string" THEN Fatal("TypeError")
       ELSE IF IsRejected(q) THEN Fatal("searchQuery is required!")
       ELSE Step("proxy", <<>>)

\* Actor.createProxyConfiguration, when a proxy is asked for
ConfigureProxy ==
    /\ mpc = "proxy"
    /\ Step("crawler", IF actorInput.proxy = "none" THEN <<>> ELSE <<"proxy">>)

\* new PuppeteerCrawler({...})
CreateCrawler ==
    /\ mpc = "crawler"
    /\ Step("run", <<"crawler">>)

\* await crawler.run([startUrl])
RunCrawler ==
    /\ mpc = "run"
    /\ Step("running", <<"navigate">>)

MainNext ==
    \/ GetInput
    \/ ValidateInput
    \/ ConfigureProxy
    \/ CreateCrawler
    \/ RunCrawler

\* Actor.main not started, for the specifications of the other components
MainIdle ==
    mpc = "idle" /\ actorInput = <<>> /\ startLog = <<>> /\ fatal = "none"

\* ------------------------------------------------------------------------
\* autoScrollInBrowser (scroll.js 195-293, reviewScroll.js 144-231)
\* ------------------------------------------------------------------------
TutorialTries == 10
ReviewTries == 15
MaxScrollAttempts == 500

AutoCounts == 0..MaxAutoCount

\* const maxTries
MaxTries == IF variant = "scroll.js" THEN TutorialTries ELSE ReviewTries

\* while (noChangeCount < maxTries) in scroll.js,
\* while (noChangeCount < maxTries && scrollAttempts < maxScrollAttempts) in reviewScroll.js
AutoLoopGuard ==
    /\ autoNoChange < MaxTries
    /\ variant = "reviewScroll.js" => scrollAttempts < MaxScrollAttempts

AutoInit ==
    /\ ppc = "entry"
    /\ apc = "uncalled"
    /\ variant \in {"scroll.js", "reviewScroll.js"}
    /\ targetReviews \in Targets
    /\ lastCount = 0
    /\ autoNoChange = 0
    /\ scrollAttempts = 0
    /\ autoRet = Null
    /\ autoStop = "none"
    /\ panelRet = NoRet

\* scrollReviewsPanel up to the call of autoScrollInBrowser:
\* if (initialCount >= maxReviews) return { scrollCount: 0, reachedEnd: false, ... }
PanelEntry ==
    /\ ppc = "entry"
    /\ \E initialCount \in AutoCounts :
         IF ReachedTarget(initialCount, targetReviews)
         THEN /\ ppc' = "returned"
              /\ panelRet' = [scrollCount |-> 0, reachedEnd |-> FALSE,
                              loaded |-> initialCount]
              /\ autoStop' = "target"
              /\ apc' = apc
         ELSE /\ ppc' = "auto"
              /\ apc' = "start"
              /\ UNCHANGED <<panelRet, autoStop>>
    /\ UNCHANGED <<variant, targetReviews, lastCount, autoNoChange, scrollAttempts, autoRet,
                   besidesAuto>>

AutoReturn(count, why) ==
    /\ apc' = "returned"
    /\ autoRet' = count
    /\ autoStop' = why
    /\ UNCHANGED <<ppc, panelRet, variant, targetReviews, lastCount, autoNoChange,
                   scrollAttempts, besidesAuto>>

\* getScrollableElement, the return without a container, let lastCount = getReviewCount()
AutoStart ==
    /\ apc = "start"
    /\ \E scrollable \in BOOLEAN, count \in AutoCounts :
         IF ~scrollable
         THEN AutoReturn(IF variant = "scroll.js" THEN count ELSE 0, "no container")
         ELSE /\ apc' = "loop"
              /\ lastCount' = count
              /\ UNCHANGED <<ppc, panelRet, autoStop, variant, targetReviews, autoNoChange,
                             scrollAttempts, autoRet, besidesAuto>>

\* the test of the while loop and, when it holds, one turn of the loop; the page shows
\* currentCount reviews before the scroll and newCount after the wait
AutoIteration ==
    /\ apc = "loop"
    /\ \E currentCount \in AutoCounts, newCount \in AutoCounts :
         IF ~AutoLoopGuard
         THEN AutoReturn(newCount, IF autoNoChange >= MaxTries THEN "stall" ELSE "ceiling")
         ELSE IF ReachedTarget(currentCount, targetReviews)
         THEN AutoReturn(currentCount, "target")
         ELSE /\ IF newCount = lastCount
                 THEN autoNoChange' = autoNoChange + 1 /\ lastCount' = lastCount
                 ELSE autoNoChange' = 0 /\ lastCount' = newCount
              /\ scrollAttempts' = IF variant = "reviewScroll.js" THEN scrollAttempts + 1
                                   ELSE scrollAttempts
              /\ UNCHANGED <<ppc, panelRet, autoStop, apc, variant, targetReviews, autoRet,
                             besidesAuto>>

\* scrollReviewsPanel after autoScrollInBrowser: the fallback scrolling, which only
\* scrolls, the final count of the page as it is then, and return { scrollCount: 0, reachedEnd: finalCount < maxReviews, reviewsLoaded }
PanelFinish ==
    /\ ppc = "auto" /\ apc = "returned"
    /\ \E finalCount \in AutoCounts :
         /\ panelRet' = [scrollCount |-> 0, reachedEnd |-> Below(finalCount, targetReviews),
                         loaded |-> finalCount]
    /\ ppc' = "returned"
    /\ UNCHANGED <<apc, variant, targetReviews, lastCount, autoNoChange, scrollAttempts,
                   autoRet, autoStop, besidesAuto>>

AutoNext ==
    \/ PanelEntry
    \/ AutoStart
    \/ AutoIteration
    \/ PanelFinish

\* no auto-scroll, for the specifications of the other components
AutoIdle ==
    /\ apc = "idle" /\ variant = "none" /\ targetReviews = Infinity /\ lastCount = 0
    /\ autoNoChange = 0 /\ scrollAttempts = 0 /\ autoRet = Null
    /\ ppc = "idle" /\ autoStop = "none" /\ panelRet = NoRet

\* ------------------------------------------------------------------------
\* Specifications
\* ------------------------------------------------------------------------
\* the scroll controllers
InitScroll ==
    ScrollInit /\ DriverIdle /\ ReviewsIdle /\ FlowIdle /\ CallIdle /\ EnrichIdle /\ MainIdle
    /\ AutoIdle

SpecScroll == InitScroll /\ [][ScrollNext]_vars

\* the collection driver with the listing extractor and the details pass
Init ==
    DriverInit /\ ScrollIdle /\ ReviewsIdle /\ FlowIdle /\ CallIdle /\ EnrichIdle /\ MainIdle
    /\ AutoIdle

Next == DriverNext

Spec == Init /\ [][Next]_vars

\* the driver under the crawler's scheduling: the crawler goes on while a request is
\* waiting or running
SpecLive == Init /\ [][Next]_vars /\ WF_vars(Next)

\* the extraction of the reviews of a page
InitReviews ==
    ReviewsInit /\ ScrollIdle /\ DriverIdle /\ FlowIdle /\ CallIdle /\ EnrichIdle /\ MainIdle
    /\ AutoIdle

SpecReviews == InitReviews /\ [][ReviewsNext]_vars

\* the review flow for one business
InitFlow ==
    FlowInit /\ ScrollIdle /\ DriverIdle /\ ReviewsIdle /\ CallIdle /\ EnrichIdle /\ MainIdle
    /\ AutoIdle

SpecFlow == InitFlow /\ [][FlowNext]_vars

\* one call of a function of the listing pass or of the details pass
InitCall ==
    CallInit /\ ScrollIdle /\ DriverIdle /\ ReviewsIdle /\ FlowIdle /\ EnrichIdle /\ MainIdle
    /\ AutoIdle

SpecCall == InitCall /\ [][CallNext]_vars

\* Actor.main up to the start of the crawl
InitMain ==
    MainInit /\ ScrollIdle /\ DriverIdle /\ ReviewsIdle /\ FlowIdle /\ CallIdle /\ EnrichIdle
    /\ AutoIdle

SpecMain == InitMain /\ [][MainNext]_vars

\* scrollReviewsPanel with autoScrollInBrowser; the loop is sequential code, it takes its next step when it has one
InitAuto ==
    AutoInit /\ ScrollIdle /\ DriverIdle /\ ReviewsIdle /\ FlowIdle /\ CallIdle /\ EnrichIdle
    /\ MainIdle

SpecAuto == InitAuto /\ [][AutoNext]_vars /\ WF_vars(AutoNext)

\* extractEnrichmentData
InitEnrich ==
    EnrichInit /\ ScrollIdle /\ DriverIdle /\ ReviewsIdle /\ FlowIdle /\ CallIdle /\ MainIdle
    /\ AutoIdle

SpecEnrich == InitEnrich /\ [][EnrichNext]_vars

\* ------------------------------------------------------------------------
\* C1: scrollSidebar returns after at most min(300, max(5, ceil(target/5)+10)) loop
\* iterations and scrollReviewsPanel after at most min(200, max(5, ceil(target/3)+10)),
\* for every target (finite or unlimited) and whatever the page shows; a return on
\* the exhausted loop comes after exactly that many iterations.
\* ------------------------------------------------------------------------
C1_Ceiling ==
    IF ctl = "sidebar"
    THEN IF target = Infinity THEN 300 ELSE Min(300, Max(5, ((target + 4) \div 5) + 10))
    ELSE IF target = Infinity THEN 200 ELSE Min(200, Max(5, ((target + 2) \div 3) + 10))

C1_TerminatesWithinCeiling ==
    /\ iters <= C1_Ceiling
    /\ scrollCount <= C1_Ceiling
    /\ (spc = "returned" /\ stopReason = "ceiling") => iters = C1_Ceiling

\* the unlimited sidebar scroll ran to its ceiling although the probe count stayed the same
C1_Witness ==
    /\ ctl = "sidebar" /\ target = Infinity
    /\ spc = "returned" /\ stopReason = "ceiling"
    /\ iters = 300 /\ sameRun = RunCap

C2_ReviewsPlateau ==
    \/ sameRun >= 6
    \/ (iters = 5 /\ sameRun = 5 /\ lastProbe = 0)

UrlsDistinct(records) ==
    \A i \in 1..Len(records), j \in 1..Len(records) :
        i # j => records[i].url # records[j].url

UrlsNonEmpty(records) == \A i \in 1..Len(records) : records[i].url # NoHref

C3_UrlsNonEmptyAndDistinct ==
    /\ UrlsNonEmpty(businesses) /\ UrlsDistinct(businesses)
    /\ UrlsNonEmpty(accepted) /\ UrlsDistinct(accepted)

\* the document showed a place more than once and two businesses were accepted
C3_Witness == docInfo.duplicates /\ Len(accepted) = 2 /\ searchPc = "done"

\* ------------------------------------------------------------------------
\* C4 (as stated): every Business record, from the listing pass or after the details
\* pass, has a rating that is null or within 1..5 (10..50 tenths) and a reviewCount that
\* is null or a non-negative integer.
\* ------------------------------------------------------------------------
RatingNullOrInRange(rating) == rating = Null \/ (rating # NaN /\ rating >= 10 /\ rating <= 50)

CountNullOrNatural(count) == count = Null \/ (count # NaN /\ count >= 0)

RecordInRange(record) ==
    RatingNullOrInRange(record.rating) /\ CountNullOrNatural(record.reviewCount)

C4_RatingAndCountInRange ==
    /\ \A i \in 1..Len(accepted) : RecordInRange(accepted[i])
    /\ \A i \in 1..Len(dataset) : RecordInRange(dataset[i])

\* ------------------------------------------------------------------------
\* C5: every Review that extractReviewsFromPage returns has an integer rating from 1
\* to 5; a container without a star label or with a rating outside 1..5 gives no Review.
\* ------------------------------------------------------------------------
C5_RatingsInRange ==
    rpc = "done" => \A i \in 1..Len(reviews) : reviews[i].rating \in 1..5

\* a review was kept from a page that also held a container rated outside 1..5
C5_Witness ==
    /\ rpc = "done" /\ Len(reviews) >= 1
    /\ \E i \in 1..Len(panel) : StarRating(panel[i]) # Null /\ StarRating(panel[i]) \notin 1..5

\* ------------------------------------------------------------------------
\* C6 (as stated): no two Review records of one page extraction have the same reviewId.
\* ------------------------------------------------------------------------
C6_UniqueReviewIds ==
    \A i \in 1..Len(reviews), j \in 1..Len(reviews) :
        i # j => reviews[i].reviewId # reviews[j].reviewId

\* ------------------------------------------------------------------------
\* C7 (as stated): whenever a stage of extractReviewsFromListing has failed, closeSidebar
\* has been attempted by the time the function returns.
\* ------------------------------------------------------------------------
C7_FailureAlwaysCloses ==
    fpc = "returned" /\ failedStages # {} => closeAttempts >= 1

\* C7 (amended): the function returns without attempting closeSidebar exactly on its two
\* early returns, bot detection and a listing click that failed; on every other return
\* (the reviews tab not opened, an error caught by the try block, completion)
\* closeSidebar has been attempted.
C7_ClosesExceptEarlyReturns ==
    fpc = "returned" =>
        IF flowExit \in {"blocked", "noclick"} THEN closeAttempts = 0
        ELSE closeAttempts >= 1

\* the extraction stage threw and the function returned after the catch block
C7_Witness ==
    fpc = "returned" /\ flowExit = "caught" /\ "extract" \in failedStages /\ closeAttempts = 1

\* ------------------------------------------------------------------------
\* C8: the stages of the try block start only in the order bot check, listing click,
\* sidebar wait, reviews tab, scroll, extraction, share links, sidebar close: each stage
\* up to the extraction starts right after the one before it, share links start only
\* after the extraction, the close only after the reviews tab, the extraction or the
\* share links, and no stage starts twice.
\* ------------------------------------------------------------------------
Stages == <<"bot", "click", "wait", "tab", "scroll", "extract", "share", "close">>

Rank(stage) == CHOOSE k \in 1..Len(Stages) : Stages[k] = stage

IsStage(entry) == \E k \in 1..Len(Stages) : Stages[k] = entry

\* the stages of the trace, without the catch block's cleanup
StageTrace == SelectSeq(trace, IsStage)

C10_CapRespected ==
    /\ ~IsUnlimited(inputMax) =>
          /\ Len(businesses) <= inputMax.value
          /\ scrapedCount <= inputMax.value
          /\ Len(accepted) <= inputMax.value
    /\ IsUnlimited(inputMax) /\ searchPc = "done" => scrapedCount = docInfo.distinct

\* the document held more distinct places than the cap and the cap was reached
C10_Witness ==
    /\ ~IsUnlimited(inputMax) /\ searchPc = "done"
    /\ docInfo.distinct > inputMax.value
    /\ scrapedCount = inputMax.value

\* ------------------------------------------------------------------------
\* C11: extractBusinessDetails overwrites a field of the business only with a non-null
\* value found on the detail page: a field that was non-null before the call is
\* non-null after it, and when the extraction fails every field is unchanged.
\* ------------------------------------------------------------------------
IsNullField(b, f) ==
    CASE f \in {"rating", "reviewCount"} -> b[f] = Null
      [] f = "website" -> b[f] = NullHref
      [] f \in {"url", "isSponsored"} -> FALSE
      [] OTHER -> b[f] = NullText

\* what the page holds for field f of a business
PageValue(page, f) ==
    CASE f = "rating" -> DetailsRating(page)
      [] f = "reviewCount" -> DetailsReviewCount(page)
      [] OTHER -> page.texts[f]

DetailsCall == applied /\ fn = "details"

C11_OverwritesOnlyWithFound ==
    DetailsCall =>
        LET before == input.business
            page == input.page
        IN  /\ \A f \in DOMAIN before :
                  /\ ~IsNullField(before, f) => ~IsNullField(output, f)
                  /\ output[f] # before[f] =>
                        ~IsNullField(output, f) /\ output[f] = PageValue(page, f)
            /\ ~page.ok => output = before

\* a call that replaced one field and kept another the page has nothing for
C11_Witness ==
    /\ DetailsCall
    /\ input.page.ok
    /\ output.name # input.business.name
    /\ ~IsNullField(input.business, "phone")
    /\ input.page.texts.phone = NullText
    /\ output.phone = input.business.phone

\* a failed call on a page that holds a value for every field
C11_FailureWitness ==
    /\ DetailsCall
    /\ ~input.page.ok
    /\ input.page.texts.name # NullText
    /\ output = input.business

\* ------------------------------------------------------------------------
\* C12: extractEnrichmentData never propagates a failure: whatever fails (the
\* navigation, the page evaluation, the contact-page visit), it returns an enrichment
\* record holding contact_page_url, emails_found and social.
\* ------------------------------------------------------------------------
EnrichmentFields == {"contact_page_url", "emails_found", "social"}

C12_NeverPropagates ==
    /\ enrichExit # "thrown"
    /\ epc = "done" =>
          /\ enrichExit = "returned"
          /\ DOMAIN enrichment = EnrichmentFields
          /\ enrichLog \cap {"navigation", "evaluation"} # {} =>
                enrichment = EmptyEnrichment

\* the navigation failed and the call returned the empty record
C12_Witness ==
    /\ epc = "done"
    /\ "navigation" \in enrichLog
    /\ enrichExit = "returned"

\* the contact visit failed and the call returned what the base page gave
C12_PartialWitness ==
    /\ epc = "done"
    /\ "contact evaluation" \in enrichLog
    /\ enrichment.emails_found # {}
    /\ enrichExit = "returned"

\* ------------------------------------------------------------------------
\* C20: after a visit of the contact page the enrichment keeps the base page's profile
\* for every platform the base page holds, takes the contact page's profile for the
\* platforms only the contact page holds, and emails_found is the union of the emails
\* of both pages.
\* ------------------------------------------------------------------------
ContactVisited == epc = "done" /\ "visited" \in enrichLog

C20_BaseSocialWinsEmailsUnion ==
    ContactVisited =>
        LET base == ExtractSocialLinks(basePage.social)
            contact == ExtractSocialLinks(contactPage.social)
        IN  /\ DOMAIN enrichment.social = DOMAIN base \cup DOMAIN contact
            /\ \A p \in DOMAIN base : enrichment.social[p] = base[p]
            /\ \A p \in DOMAIN contact \ DOMAIN base : enrichment.social[p] = contact[p]
            /\ enrichment.emails_found = BaseEmails(basePage) \cup ContactEmails(contactPage)

\* both pages hold a different facebook profile, the contact page alone an instagram
\* profile and an email the base page lacks
C20_Witness ==
    /\ ContactVisited
    /\ LET base == ExtractSocialLinks(basePage.social)
           contact == ExtractSocialLinks(contactPage.social)
       IN  /\ \E p \in DOMAIN base \cap DOMAIN contact : base[p] # contact[p]
           /\ DOMAIN contact \ DOMAIN base # {}
    /\ ~(ContactEmails(contactPage) \subseteq BaseEmails(basePage))
    /\ ~(BaseEmails(basePage) \subseteq ContactEmails(contactPage))

\* ------------------------------------------------------------------------
\* C14: in extractShareLinksForReviews a failure while obtaining one review's share
\* link does not stop the loop: every later review is still attempted, the failing
\* review keeps shareLink null, and closing the share dialog is attempted for every
\* review whose share button was clicked before the next review is processed.
\* ------------------------------------------------------------------------
\* the share-link loop has been entered and left
ShareLoopLeft == shareLog # <<>> /\ fpc # "share"

C14_ShareLoopIsolated ==
    /\ ShareLoopLeft => Len(shareLog) = found
    /\ \A i \in 1..Len(shareLog) :
          /\ shareLog[i].failedAt \in {"click", "url"} => shareLog[i].shareLink = NullText
          /\ shareLog[i].clicked => shareLog[i].closes >= 1

\* ------------------------------------------------------------------------
\* C15: when the page shows bot-detection markers, extractReviewsFromListing returns
\* an empty review list without throwing and without clicking a listing, opening the
\* reviews tab or scrolling.
\* ------------------------------------------------------------------------
C15_BotBlockedReturnsEmpty ==
    botMarkers =>
        /\ fpc = "returned"
        /\ flowExit = "blocked"
        /\ flowRet = 0
        /\ trace = <<"bot">>
        /\ closeAttempts = 0

C15_Witness == botMarkers /\ fpc = "returned" /\ flowExit = "blocked"

\* ------------------------------------------------------------------------
\* C13: when the extraction of one article throws, that article yields no record, the
\* other articles of the pass are still processed in order, and the pass returns.
\* ------------------------------------------------------------------------
ListingsCall == applied /\ fn = "listings"

\* the place url of article i (NoHref: the article has no place link)
ArticleUrl(arts, i) ==
    IF PlaceLinkIndex(arts[i].links) = 0 THEN NoHref
    ELSE arts[i].links[PlaceLinkIndex(arts[i].links)]

\* article i has a place link that no earlier article has
FreshArticle(arts, i) ==
    /\ ArticleUrl(arts, i) # NoHref
    /\ \A j \in 1..(i - 1) : ArticleUrl(arts, j) # ArticleUrl(arts, i)

\* the records of the fresh articles that do not throw, in document order
RECURSIVE ArticleRecords(_, _)
ArticleRecords(arts, i) ==
    IF i > Len(arts) THEN <<>>
    ELSE (IF FreshArticle(arts, i) /\ ~arts[i].broken
          THEN <<ArticleBusiness(arts[i], ArticleUrl(arts, i))>> ELSE <<>>)
             \o ArticleRecords(arts, i + 1)

\* the first max entries of a sequence
Capped(records, max) ==
    IF max = Infinity \/ Len(records) <= max THEN records ELSE SubSeq(records, 1, max)

SomeArticleThrows(arts) ==
    \E i \in 1..Len(arts) : arts[i].broken /\ FreshArticle(arts, i)

C13_ThrowingArticleSkipped ==
    ListingsCall /\ SomeArticleThrows(Articles(input.doc)) =>
        LET arts == Articles(input.doc)
            expected == ArticleRecords(arts, 1)
        IN  /\ expected # <<>> => output = Capped(expected, input.max)
            /\ \A i \in 1..Len(arts) : arts[i].broken /\ FreshArticle(arts, i) =>
                  \A k \in 1..Len(output) : output[k].url # ArticleUrl(arts, i)

\* an article that throws between two articles that yield their records
C13_Witness ==
    /\ ListingsCall
    /\ Len(input.doc) = 3
    /\ input.doc[2].article /\ input.doc[2].broken
    /\ Len(output) = 2
    /\ output[1].url = ArticleUrl(input.doc, 1)
    /\ output[2].url = ArticleUrl(input.doc, 3)

\* ------------------------------------------------------------------------
\* C16: in the website resolution of the listing pass an article with exactly one
\* qualifying external link gets that link as website, an article with no qualifying
\* external link gets website null, and an ad-redirect link (google.com/aclk) that is
\* the only external link is accepted as website. A qualifying external link is a
\* valid website url that is not on a social-media domain.
\* ------------------------------------------------------------------------
WebsiteCall == applied /\ fn = "website"

C16_WebsiteCascade ==
    WebsiteCall =>
        LET qualifying == ExternalLinks(input.links) IN
        /\ Len(qualifying) = 1 => output = qualifying[1]
        /\ Len(qualifying) = 0 => output = NullHref
        /\ Len(input.links) = 1 /\ IncludesAclk(input.links[1].href) =>
              output = input.links[1].href

\* ------------------------------------------------------------------------
\* C17: in the span loop each fragment is tested against the classifiers in the order
\* category, address, phone, hoursStatus and is claimed by at most one of them: a
\* fragment claimed for one field is not tested for a later field, and each field takes
\* the first fragment in document order that reaches and passes its classifier while
\* the field is still unset.
\* ------------------------------------------------------------------------
SpansCall == applied /\ fn = "spans"

ClassifiedFields == {"category", "address", "phone", "hoursStatus"}

FieldRank(field) ==
    CASE field = "category" -> 1
      [] field = "address" -> 2
      [] field = "phone" -> 3
      [] field = "hoursStatus" -> 4

\* field was set by a fragment before fragment i
SetBefore(claims, field, i) == \E c \in claims : c[2] = field /\ c[1] < i

C17_ClassifierPrecedence ==
    SpansCall =>
        LET spans == input.spans
            tested == output.tested
            claims == output.claims
        IN  /\ \A c \in claims, d \in claims : c[1] = d[1] => c = d
            /\ \A c \in claims, t \in tested :
                  t[1] = c[1] => FieldRank(t[2]) <= FieldRank(c[2])
            /\ \A t \in tested :
                  /\ ~SetBefore(claims, t[2], t[1])
                  /\ \A f \in ClassifiedFields :
                        FieldRank(f) < FieldRank(t[2]) =>
                            \/ SetBefore(claims, f, t[1])
                            \/ <<t[1], f>> \in tested /\ ~Passes(f, spans[t[1]])
            /\ \A f \in ClassifiedFields :
                  LET passing == {t \in tested : t[2] = f /\ Passes(f, spans[t[1]])} IN
                  IF passing = {} THEN output[f] = NullText
                  ELSE \E t \in passing :
                          /\ \A u \in passing : t[1] <= u[1]
                          /\ t \in claims
                          /\ output[f] = spans[t[1]]

\* a fragment that is a category and an address is claimed as the category, and a later
\* fragment that is an address and an hours status is claimed as the address
C17_Witness ==
    /\ SpansCall
    /\ \E c \in output.claims, d \in output.claims :
          /\ c[2] = "category" /\ IsAddress(input.spans[c[1]])
          /\ d[2] = "address" /\ IsHoursStatus(input.spans[d[1]])
          /\ c[1] < d[1]
          /\ output.hoursStatus # input.spans[d[1]]

\* ------------------------------------------------------------------------
\* C18: the anchor-only strategy of extractBusinessListings runs only if the primary
\* strategy enumerated no article container in the document.
\* ------------------------------------------------------------------------
\* the outcome of Method 1 on the document of the call
PrimaryPass == ArticlePass(Articles(input.doc), 1, <<>>, {}, input.max)

C18_FallbackOnlyWithoutArticles ==
    ListingsCall /\ FallbackRuns(PrimaryPass) => Articles(input.doc) = <<>>

\* ------------------------------------------------------------------------
\* C19: when the document holds no article container, the records returned are those
\* of the anchor fallback, one per distinct place anchor up to the cap, with only name
\* and url populated: rating, reviewCount, category, address, phone, website and
\* hoursStatus are null and isSponsored is false.
\* ------------------------------------------------------------------------
AnchorUrls(doc) == {PlaceAnchors(doc)[i] : i \in 1..Len(PlaceAnchors(doc))}

OnlyNameAndUrl(b) ==
    /\ b.name # NullText /\ b.name # ""
    /\ HasPlacePath(b.url)
    /\ b.rating = Null /\ b.reviewCount = Null
    /\ b.category = NullText /\ b.address = NullText /\ b.phone = NullText
    /\ b.website = NullHref /\ b.hoursStatus = NullText
    /\ b.isSponsored = FALSE

C19_AnchorRecordsMinimal ==
    ListingsCall /\ Articles(input.doc) = <<>> =>
        /\ Len(output) = Cardinality(AnchorUrls(input.doc))
              \/ ReachedTarget(Len(output), input.max)
        /\ \A k \in 1..Len(output) :
              /\ OnlyNameAndUrl(output[k])
              /\ \E i \in 1..Len(PlaceAnchors(input.doc)) :
                    output[k] = AnchorBusiness(PlaceAnchors(input.doc)[i],
                                               PlaceAnchorLabels(input.doc)[i])

\* two anchors outside any article, one of them without label or text
C19_Witness ==
    /\ ListingsCall
    /\ Articles(input.doc) = <<>>
    /\ Len(output) = 2
    /\ \E k \in 1..2 : output[k].name = "Unknown Business"

\* ------------------------------------------------------------------------
\* C21: in every enrichment record extractEnrichmentData returns, emails_found holds
\* only lower-case, validated emails and no two entries are equal when compared
\* case-insensitively, mailto and contact-page entries included.
\* ------------------------------------------------------------------------
C21_EmailsLowercaseUnique ==
    epc = "done" =>
        /\ \A e \in enrichment.emails_found : IsValidEmail(e) /\ ToLowerCase(e) = e
        /\ \A e \in enrichment.emails_found, f \in enrichment.emails_found :
              ToLowerCase(e) = ToLowerCase(f) => e = f

\* ------------------------------------------------------------------------
\* C22: extractSocialLinks returns at most one url per platform, the first match of the
\* platform that is not the bare domain; a later match of the platform, of the same or
\* of another of its patterns, never replaces it. (The pages of the model list the
\* matches of a platform in text order, those of its first pattern first.)
\* ------------------------------------------------------------------------
RECURSIVE Flatten(_)
Flatten(seqs) == IF seqs = <<>> THEN <<>> ELSE Head(seqs) \o Flatten(Tail(seqs))

BaseEvaluated == epc = "contact"

C22_FirstProfileWins ==
    BaseEvaluated =>
        \A p \in Platforms :
            LET first == FirstProfile(Flatten(basePage.social[p])) IN
            IF first = <<>> THEN p \notin DOMAIN enrichment.social
            ELSE p \in DOMAIN enrichment.social /\ enrichment.social[p] = first[1]

\* ------------------------------------------------------------------------
\* C23: calculateQualityScore returns a value between 0.0 and 1.0 that is the weighted
\* sum of the fields present (name, phone, website, address 1 each; rating, review
\* count 0.5 each; any email 2; contact page 1; 0.5 per social platform, at most 2)
\* over 10, rounded to one decimal; the business it was given is unchanged.
\* ------------------------------------------------------------------------
ScoreCall == applied /\ fn = "score"

Has(present) == IF present THEN 1 ELSE 0

\* twice the weighted sum of the claim
WeightedHalves(b) ==
    2 * (Has(b.name # "" /\ b.name # NullText) + Has(b.phone # "" /\ b.phone # NullText)
         + Has(b.website # NullHref) + Has(b.address # "" /\ b.address # NullText))
    + Has(b.rating > 0) + Has(b.reviewCount > 0)
    + (IF b.enrichment = <<>> THEN 0
       ELSE 4 * Has(b.enrichment[1].emails_found # {})
            + 2 * Has(b.enrichment[1].contact_page_url # NullText)
            + (LET n == Cardinality(DOMAIN b.enrichment[1].social) IN
               IF n > 4 THEN 4 ELSE n))

C23_ScoreIsWeightedSum ==
    ScoreCall =>
        /\ output.score \in 0..10
        /\ 2 * output.score \in {WeightedHalves(input.business),
                                 WeightedHalves(input.business) + 1}
        /\ output.business = input.business

C23_Witness ==
    /\ ScoreCall
    /\ input.business.enrichment # <<>>
    /\ Cardinality(DOMAIN input.business.enrichment[1].social) > 4
    /\ output.score = 10

\* ------------------------------------------------------------------------
\* C24: every business pushed to the dataset has the same fixed set of keys, whatever
\* the listing pass and the details pass found: no key is left out and none is added.
\* ------------------------------------------------------------------------
PushCall == applied /\ fn = "push"

C24_FixedKeys == PushCall => output.keys = ListingKeys

\* ------------------------------------------------------------------------
\* C25: with an input that has no searchQuery, or a blank one, Actor.main throws before
\* a proxy is configured, before the crawler is created and before any navigation.
\* ------------------------------------------------------------------------
NoSearchQuery ==
    \/ actorInput.searchQuery.kind \in {"undefined", "null"}
    \/ /\ actorInput.searchQuery.kind = "string"
       /\ actorInput.searchQuery.text \in {"", "  "}

C25_MissingQueryIsFatal ==
    (~actorInput.present \/ NoSearchQuery) =>
        /\ startLog = <<>>
        /\ mpc \in {"input", "validate", "fatal"}
        /\ (actorInput.present /\ mpc = "fatal") => fatal = "searchQuery is required!"

C25_Witness ==
    /\ actorInput.present
    /\ actorInput.searchQuery = Query("string", "  ")
    /\ mpc = "fatal"

\* ------------------------------------------------------------------------
\* C26: autoScrollInBrowser stops after a bounded number of scroll attempts whatever
\* the page does, a review count that differs at every poll with an unlimited target
\* included: every call of it returns.
\* ------------------------------------------------------------------------
C26_AutoScrollReturns == (apc = "start") ~> (apc = "returned")

\* ------------------------------------------------------------------------
\* C27: a scroll controller returns reachedEnd = true when it stopped on the end marker
\* or on the stall threshold, and reachedEnd = false when it stopped because the probe
\* reached the target or because the scroll ceiling was exhausted. Here for the
\* scrollReviewsPanel that runs autoScrollInBrowser.
\* ------------------------------------------------------------------------
C27_ReachedEndTellsWhy ==
    ppc = "returned" =>
        /\ autoStop \in {"end", "stall"} => panelRet.reachedEnd
        /\ autoStop \in {"target", "ceiling"} => ~panelRet.reachedEnd

\* ------------------------------------------------------------------------
\* C28: scrollSidebar adds to its stall counter in an iteration only when neither the
\* scroll height nor the probe count changed since the previous iteration, and a change
\* of either sets the counter to zero: the counter never exceeds the number of
\* consecutive iterations that probed the same count, and it is zero after an
\* iteration whose probe differs from the one before.
\* ------------------------------------------------------------------------
C28_StallNeedsNoChangeAtAll ==
    (ctl = "sidebar" /\ (spc = "loop" \/ stopReason = "stall")) =>
        /\ noChangeCount <= sameRun
        /\ (iters > 1 /\ sameRun = 1) => noChangeCount = 0

\* ------------------------------------------------------------------------
\* C29: every business the driver accepted (counted in scrapedCount) is in the end
\* pushed to the dataset exactly once, with scrapeDetails off and with scrapeDetails on,
\* the failure of its detail request included.
\* ------------------------------------------------------------------------
Pushes(url) == Cardinality({k \in 1..Len(dataset) : dataset[k].url = url})

C29_AcceptedPushedOnce ==
    <>[](\A i \in 1..Len(accepted) : Pushes(accepted[i].url) = 1)

\* ------------------------------------------------------------------------
\* C30: clickOnListing clicks a listing only if the url or the label of that listing
\* matches the business; when no listing of the page corresponds to the business, a
\* business whose name has no ASCII letter or digit included, it clicks nothing and
\* returns false.
\* ------------------------------------------------------------------------
ClickCall == applied /\ fn = "click"

\* two names match: neither is empty and one holds the other
EitherIncludesNonEmpty(a, b) == a # "" /\ b # "" /\ (Includes(a, b) \/ Includes(b, a))

\* the link is the business's: same url, or a place name or text that holds the name or
\* is held by it
LinkCorresponds(l, business) ==
    \/ l.url = business.url
    \/ EitherIncludesNonEmpty(Normalize(l.place), Normalize(business.name))
    \/ EitherIncludesNonEmpty(Normalize(l.text), Normalize(business.name))

ArticleCorresponds(a, business) ==
    EitherIncludesNonEmpty(Normalize(a.label), Normalize(business.name))

C30_ClicksOnlyTheBusiness ==
    ClickCall =>
        LET page == input.page
            business == input.business
        IN  /\ output.kind = "link" =>
                 \/ LinkCorresponds(page.links[output.at], business)
                 \/ \E j \in 1..Len(page.articles) :
                       /\ page.articles[j].link = output.at
                       /\ ArticleCorresponds(page.articles[j], business)
            /\ output.kind = "article" => ArticleCorresponds(page.articles[output.at], business)
            /\ ( /\ \A i \in 1..Len(page.links) : ~LinkCorresponds(page.links[i], business)
                 /\ \A j \in 1..Len(page.articles) :
                       ~ArticleCorresponds(page.articles[j], business) )
               => (output.kind = "none" /\ ~output.ret)

\* ------------------------------------------------------------------------
\* C31: when the share-link pass or the closing of the sidebar fails after reviews were
\* extracted from the panel, extractReviewsFromListing returns the reviews extracted,
\* not an empty list.
\* ------------------------------------------------------------------------
FailedAfterExtraction == found > 0 /\ failedStages \cap {"share", "close"} # {}

C31_KeepsExtractedReviews ==
    (fpc = "returned" /\ FailedAfterExtraction) => flowRet = found

\* ------------------------------------------------------------------------
\* C32: when the reviews tab cannot be located or activated, extractReviewsFromListing
\* gives the business up: it neither scrolls the reviews nor extracts any, it calls
\* closeSidebar and it returns an empty list; nothing is thrown to the caller.
\* ------------------------------------------------------------------------
InTrace(stage) == \E i \in 1..Len(trace) : trace[i] = stage

TabFailed == "tab" \in failedStages

C32_NoTabAbandonsBusiness ==
    TabFailed =>
        /\ ~InTrace("scroll") /\ ~InTrace("extract") /\ ~InTrace("share")
        /\ fpc \in {"catch", "returned"}
        /\ fpc = "returned" =>
              (flowRet = 0 /\ closeAttempts >= 1 /\ flowExit \in {"notab", "caught"})

C32_Witness == TabFailed /\ fpc = "returned" /\ flowExit = "notab" /\ closeAttempts = 1

\* ------------------------------------------------------------------------
\* C33: closeSidebar tries the Back button first, then a Close button, then the Escape
\* key, and on every path on which it returns it has checked, as its last step, that
\* the listing feed is shown again.
\* ------------------------------------------------------------------------
CloseCall == applied /\ fn = "close"

FirstAt(steps, step) ==
    IF \E i \in 1..Len(steps) : steps[i] = step
    THEN CHOOSE i \in 1..Len(steps) : steps[i] = step /\ \A k \in 1..(i - 1) : steps[k] # step
    ELSE Len(steps) + 1

C33_BackCloseEscapeThenVerify ==
    (CloseCall /\ ~output.thrown) =>
        /\ FirstAt(output.steps, "back") <= FirstAt(output.steps, "close")
        /\ FirstAt(output.steps, "close") <= FirstAt(output.steps, "escape")
        /\ output.steps[Len(output.steps)] = "verify"

\* ------------------------------------------------------------------------
\* C34: clickOnListing chooses by strategy, not by document order: a link whose href is
\* exactly the business url is clicked even when an earlier link matches by normalized
\* substring; a substring match of the url is used only without an exact one, and a
\* label match only without any url match.
\* ------------------------------------------------------------------------
HasExactUrl == \E i \in 1..Len(input.page.links) : input.page.links[i].url = input.business.url

UrlSubstringAt(i) ==
    EitherIncludes(Normalize(input.page.links[i].place), Normalize(input.business.name))

HasUrlSubstring == \E i \in 1..Len(input.page.links) : UrlSubstringAt(i)

C34_StrategyBeforeDocumentOrder ==
    ClickCall =>
        /\ HasExactUrl =>
              /\ output.clicked = "url-exact" /\ output.kind = "link"
              /\ input.page.links[output.at].url = input.business.url
        /\ output.clicked = "url-partial" => (~HasExactUrl /\ UrlSubstringAt(output.at))
        /\ output.clicked \in {"article-aria", "article-click", "link-text"} =>
              (~HasExactUrl /\ ~HasUrlSubstring)

\* the second link has the url, the first matches by its place name
C34_Witness ==
    /\ ClickCall
    /\ Len(input.page.links) = 2
    /\ input.page.links[1].url # input.business.url
    /\ Normalize(input.page.links[1].place) = "joes"
    /\ UrlSubstringAt(1)
    /\ output.clicked = "url-exact" /\ output.at = 2

\* ------------------------------------------------------------------------
\* C35: no stage of the website cascade of the listing pass chooses a link on a
\* social-media domain (facebook, instagram, twitter, youtube, linkedin) that is not an
\* ad-redirect link, the Website button stage and the attribute stage included.
\* ------------------------------------------------------------------------
SocialMediaHosts ==
    {"www.facebook.com", "www.instagram.com", "www.twitter.com", "www.youtube.com",
     "www.linkedin.com"}

C35_NeverSocialWebsite ==
    WebsiteCall => (IncludesAclk(output) \/ output.host \notin SocialMediaHosts)

\* ------------------------------------------------------------------------
\* C36: when the navigation to the website times out, extractEnrichmentData still runs
\* the extraction of the base page (emails, social links, contact page url) on what
\* loaded; when the navigation fails for any other reason no extraction runs and the
\* empty enrichment record is returned.
\* ------------------------------------------------------------------------
NavigationTimedOut == "timeout" \in enrichLog
NavigationFailed == "navigation" \in enrichLog

\* the record holds what the base page gives
HoldsBaseData ==
    /\ enrichment.contact_page_url = basePage.contactUrl
    /\ BaseEmails(basePage) \subseteq enrichment.emails_found
    /\ DOMAIN ExtractSocialLinks(basePage.social) \subseteq DOMAIN enrichment.social

ContactFailures == {"contact navigation", "contact evaluation"}
ContactAttempted == enrichLog \cap (ContactFailures \cup {"visited"}) # {}
ContactFailed == enrichLog \cap ContactFailures # {}

BaseEnrichment ==
    [contact_page_url |-> basePage.contactUrl,
     emails_found |-> BaseEmails(basePage),
     social |-> ExtractSocialLinks(basePage.social)]

C37_ContactVisitGuardedAndFramed ==
    /\ ContactAttempted =>
          /\ followContactPage
          /\ basePage.contactUrl \notin {NullText, ""}
          /\ basePage.contactUrl # websiteUrl
    /\ ContactFailed =>
          /\ epc = "done"
          /\ enrichExit = "returned"
          /\ enrichment = BaseEnrichment

\* the navigation to the contact page failed and the emails of the base page are returned
C37_Witness ==
    /\ epc = "done"
    /\ "contact navigation" \in enrichLog
    /\ enrichment.emails_found # {}
    /\ enrichment.social # <<>>

\* ------------------------------------------------------------------------
\* C38: when scrollSidebar returns early because the loaded count reached maxResults,
\* the document holds at least maxResults div[role="article"] containers, the elements
\* the primary strategy of extractBusinessListings enumerates, and the count reported
\* is the count of those containers.
\* ------------------------------------------------------------------------
ReturnedEarly == ctl = "sidebar" /\ spc = "returned" /\ stopReason = "target"

C38_EarlyReturnCountsArticles ==
    ReturnedEarly =>
        /\ ReachedTarget(lastArticles, target)
        /\ ret.loaded = lastArticles

\* ------------------------------------------------------------------------
\* C39: when one review id is rendered in several [data-review-id] containers and at
\* least one of them carries a rating in 1..5, extractReviewsFromPage, below its
\* maxReviews cap, returns exactly one review for that id.
\* ------------------------------------------------------------------------
RenderedAt(id) == {i \in 1..Len(panel) : panel[i].id = id}

CarriesRating(c) ==
    StarRating(c) # Null /\ StarRating(c) >= 1 /\ StarRating(c) <= 5 /\ ~c.listing

RepeatedRatedIds ==
    {id \in {panel[i].id : i \in 1..Len(panel)} :
        /\ id # ""
        /\ Cardinality(RenderedAt(id)) > 1
        /\ \E i \in RenderedAt(id) : CarriesRating(panel[i])}

ReviewsOf(id) == {i \in 1..Len(reviews) : reviews[i].reviewId = id}

C39_OneReviewPerRepeatedId ==
    (rpc = "done" /\ Below(Len(reviews), maxReviews)) =>
        \A id \in RepeatedRatedIds : Cardinality(ReviewsOf(id)) = 1

====
